---- MODULE Spec2Model ----
(***************************************************************************)
(* x402 oracle: on-chain payment verification (lib/verify-payment.ts),     *)
(* the payment-gated reputation endpoint (app/api/reputation/route.ts)     *)
(* and the paying client (lib/AgentWallet.ts).                             *)
(*                                                                         *)
(* Conventions.                                                            *)
(*  - An optional value (undefined/null in the source) is a sequence of    *)
(*    length at most one: None is <<>>, Some(v) is <<v>>.                  *)
(*  - A string the code inspects character by character (the              *)
(*    Authorization header, a signature) is a sequence of one-character    *)
(*    strings.  Addresses, mints and messages are opaque strings.          *)
(*  - On the server a decimal USDC quantity (0.05) is represented by its   *)
(*    exact value in millionths (50000), the ledger's smallest unit.  The  *)
(*    source converts with * 1_000_000 and / 1_000_000 in IEEE doubles:    *)
(*    ToRawUnits computes the product as the doubles do, which for some    *)
(*    decimals is the double next to the whole number (for the configured  *)
(*    price 0.05 * 1_000_000 is exactly 50000).                            *)
(*  - On the client a decimal quantity (a requirement's amount, maxAmount) *)
(*    is a whole number of 1/DecimalGrid of the smallest unit, so that a   *)
(*    decimal need not be a whole number of smallest units; AmountRaw is   *)
(*    the conversion Math.round(amount * 1_000_000) to smallest units.     *)
(***************************************************************************)
EXTENDS Integers, Sequences, FiniteSets, TLC

VARIABLES
    \* ---- server: verify-payment.ts module state and its environment ----
    usedSignatures,   \* the Set<string>, in insertion order (a JS Set iterates so)
    network,          \* NETWORK the route module was configured with
    now,              \* server clock, unix seconds
    confirmed,        \* signatures whose transaction the RPC node returns
    calls,            \* one record per request handler invocation (GET/POST)
    \* ---- one verification of one transaction (pure-function checks) ----
    txIn,             \* the transaction handed to the checks
    txExpected,       \* the expectedAmount verifyPayment is called with
    txOut,            \* what verifyPayment returned for it
    xferOut,          \* what findUSDCTransfer returned for it
    \* ---- client: one AgentWallet.pay call ----
    pay               \* the pay call: inputs, position, network events, result

serverVars == <<usedSignatures, network, now, confirmed, calls>>
txVars     == <<txIn, txExpected, txOut, xferOut>>
clientVars == <<pay>>
vars       == <<usedSignatures, network, now, confirmed, calls,
                txIn, txExpected, txOut, xferOut, pay>>

None    == <<>>
Some(v) == <<v>>
IsSome(o) == o # <<>>
Val(o)  == o[1]

Abs(x) == IF x < 0 THEN -x ELSE x

(***************************************************************************)
(* Configuration                                                           *)
(***************************************************************************)
\* USDC_MINTS: the mint per known network
USDC_MINTS ==
    [n \in {"devnet", "mainnet-beta"} |->
        IF n = "devnet" THEN "USDC_DEVNET" ELSE "USDC_MAINNET"]

OTHER_MINT == "OTHER_MINT"

\* the members the table inherits from Object.prototype: USDC_MINTS is an
\* object literal, and USDC_MINTS[network] finds them too
OBJECT_PROTOTYPE ==
    {"constructor", "toString", "toLocaleString", "valueOf", "hasOwnProperty",
     "isPrototypeOf", "propertyIsEnumerable", "__proto__",
     "__defineGetter__", "__defineSetter__", "__lookupGetter__",
     "__lookupSetter__"}

\* USDC_MINTS[network]: the mint of a listed network; for an inherited member
\* a function or object, which is truthy and equal to no mint of the ledger;
\* undefined otherwise
LookupMint(net) ==
    IF net \in DOMAIN USDC_MINTS THEN Some(USDC_MINTS[net])
    ELSE IF net \in OBJECT_PROTOTYPE THEN Some("Object.prototype." \o net)
    ELSE None

MAX_TX_AGE_SECONDS == 300
FUTURE_SKEW_SECONDS == 60
AMOUNT_TOLERANCE == 1000
REPLAY_HIGH_WATER == 10000
REPLAY_EVICT_COUNT == 5000

RECEIVER_WALLET == "RECEIVER"
PRICE_USDC == 50000
MIN_SIGNATURE_LENGTH == 80

(***************************************************************************)
(* amount * 1_000_000 in IEEE doubles.  A decimal amount is k steps of     *)
(* which grid make one millionth: k / (grid * 10^6).  It is stored as the  *)
(* double d nearest to it, d = m * 2^(-s) with a 53-bit m; d * 10^6 is      *)
(* k / grid - r * 2^(-s) / grid for the remainder r of the conversion, and *)
(* the product is that number rounded to a double.  When t = k / grid is a *)
(* whole number of halves, t is a double, and the product is t when the    *)
(* deviation is at most half the distance from t to the next double, the   *)
(* next double below or above t otherwise.  The product is represented as  *)
(* units / grid + ulps * 2^exponent with ulps in {-1, 0, 1}.               *)
(***************************************************************************)
DoubleBits == 52
Million == 1000000

\* floor(log2(n)) for n >= 1
RECURSIVE Log2(_)
Log2(n) == IF n < 2 THEN 0 ELSE 1 + Log2(n \div 2)

\* floor(log2(n / d)) for n >= 1: the binary exponent of the quotient
RECURSIVE BinaryExponent(_, _)
BinaryExponent(n, d) ==
    IF n >= d THEN Log2(n \div d) ELSE BinaryExponent(2 * n, d) - 1

\* (x * 2^times) mod d, seven doublings at a time while that many remain
RECURSIVE DoubledMod(_, _, _)
DoubledMod(x, times, d) ==
    IF times = 0 THEN x % d
    ELSE IF times >= 7 THEN DoubledMod((128 * (x % d)) % d, times - 7, d)
    ELSE DoubledMod((2 * (x % d)) % d, times - 1, d)

Exact(n) == [units |-> n, ulps |-> 0, exponent |-> 0]

\* k / (grid * 10^6) stored as a double, times 10^6, for k >= 1 and
\* 2 * k / grid whole
ProductOfPositive(k, grid) ==
    LET e == BinaryExponent(k, grid)
        E == BinaryExponent(k, grid * Million)
        rem == DoubledMod(k, DoubleBits - E, grid * Million)
        \* the stored decimal is below the amount when the conversion
        \* rounded down
        below == rem * 2 < grid * Million
        r == IF below THEN rem ELSE grid * Million - rem
        \* half the distance from t to the neighbouring double is
        \* 2^(e - 53), and 2^(e - 54) below a power of two; the deviation
        \* r * 2^(E - 52) / grid exceeds it iff 2 * r > grid * 2^(e - E)
        \* (4 * r); a tie goes to t, whose significand is even
        narrow == /\ below
                  /\ IF e >= 0 THEN k = grid * 2 ^ e ELSE k * 2 ^ (- e) = grid
    IN  IF rem = 0 \/ r * (IF narrow THEN 4 ELSE 2) <= grid * 2 ^ (e - E)
        THEN Exact(k)
        ELSE [units |-> k, ulps |-> IF below THEN -1 ELSE 1,
              exponent |-> e - DoubleBits - (IF narrow THEN 1 ELSE 0)]

\* expectedAmount * 1_000_000 (line 130), expectedAmount in millionths
ToRawUnits(amount) ==
    IF amount = 0 THEN Exact(0)
    ELSE IF amount > 0 THEN ProductOfPositive(amount, 1)
    ELSE LET p == ProductOfPositive(-amount, 1)
         IN  [units |-> -p.units, ulps |-> -p.ulps, exponent |-> p.exponent]

\* amount / 1_000_000 (lines 136, 137, 154): the double nearest to the
\* decimal of raw millionths, which is how that decimal is represented
FromRawUnits(raw)  == raw

\* Math.abs(amount - expectedRaw) > bound in doubles, for whole numbers
\* amount and bound: the difference is amount - units - ulps * 2^exponent,
\* rounded to a double.  Only at a whole distance of exactly bound does the
\* fraction matter, and there it survives the rounding of the difference
\* when it is more than half the distance between the doubles at bound.
FartherThan(amount, expectedRaw, bound) ==
    LET d == amount - expectedRaw.units
        away == IF d > 0 THEN - expectedRaw.ulps ELSE expectedRaw.ulps
    IN  IF Abs(d) # bound THEN Abs(d) > bound
        ELSE /\ away = 1
             /\ expectedRaw.exponent > Log2(bound) - DoubleBits - 1

(***************************************************************************)
(* Error messages of verifyPayment (the interpolated values left out)      *)
(***************************************************************************)
ErrReplay          == "Transaction signature already used (replay attack prevented)"
ErrUnknownNetwork  == "Unknown network"
ErrNotFound        == "Transaction not found"
ErrTxFailed        == "Transaction failed"
ErrTooOld          == "Transaction too old"
ErrFromFuture      == "Transaction timestamp is in the future"
ErrNoTransfer      == "No USDC transfer to receiver found in transaction"
ErrAmountMismatch  == "Amount mismatch"
ErrVerification    == "Verification failed"

\* PaymentVerification: every optional field is an option
Invalid(err, amount, timestamp) ==
    [valid |-> FALSE, error |-> Some(err), sender |-> None, receiver |-> None,
     amount |-> amount, timestamp |-> timestamp, slot |-> None]

(***************************************************************************)
(* Transaction detail as returned by getParsedTransaction                  *)
(*   tx  = [err, blockTime, slot, instructions, pre, post]                 *)
(*   err        meta.err is set                                            *)
(*   blockTime  option of unix seconds                                     *)
(*   pre, post  meta.preTokenBalances / meta.postTokenBalances, each entry *)
(*              [accountIndex, mint, owner (option), amount]               *)
(*   instructions  each [parsed, program, type, mint (option)]             *)
(***************************************************************************)
Min(S) == CHOOSE x \in S : \A y \in S : x <= y

\* Array.prototype.find(p => p.accountIndex === accountIndex)
FindBalance(balances, accountIndex) ==
    LET hits == {i \in 1..Len(balances) : balances[i].accountIndex = accountIndex}
    IN  IF hits = {} THEN None ELSE Some(balances[Min(hits)])

\* pre?.uiTokenAmount?.amount ? BigInt(pre.uiTokenAmount.amount) : BigInt(0)
AmountOrZero(entry) == IF IsSome(entry) THEN Val(entry).amount ELSE 0

\* delta = postAmount - preAmount for one postTokenBalances entry
ReceiverDelta(tx, post) ==
    post.amount - AmountOrZero(FindBalance(tx.pre, post.accountIndex))

\* mutant: an account of the receiver may be taken for the sender
MutFindSenderAnyOwner(tx, usdcMint, expectedReceiver, delta) ==
    LET hits == {i \in 1..Len(tx.pre) :
                    /\ tx.pre[i].mint = usdcMint
                    /\ tx.pre[i].amount
                         - AmountOrZero(FindBalance(tx.post, tx.pre[i].accountIndex))
                       = delta}
    IN  IF hits = {} THEN None ELSE tx.pre[Min(hits)].owner

\* lines 272-287, the sender loop of the fallback: first pre entry of the
\* mint, not owned by the receiver, whose balance dropped by exactly delta;
\* sender = preB.owner ?? undefined
FindSender(tx, usdcMint, expectedReceiver, delta) ==
    LET hits == {i \in 1..Len(tx.pre) :
                    /\ tx.pre[i].mint = usdcMint
                    /\ tx.pre[i].owner # Some(expectedReceiver)
                    /\ tx.pre[i].amount
                         - AmountOrZero(FindBalance(tx.post, tx.pre[i].accountIndex))
                       = delta}
    IN  IF hits = {} THEN None ELSE tx.pre[Min(hits)].owner

NotFoundResult ==
    [found |-> FALSE, error |-> Some(ErrNoTransfer), sender |-> None,
     receiver |-> None, amount |-> None]

\* mutant: the owner of the credited account is not compared
MutCreditsAnyOwner(tx, post, usdcMint, expectedReceiver) ==
    /\ post.mint = usdcMint
    /\ ReceiverDelta(tx, post) > 0

\* mutant: any change of the receiver's balance counts
MutCreditsAnyChange(tx, post, usdcMint, expectedReceiver) ==
    /\ post.mint = usdcMint
    /\ post.owner = Some(expectedReceiver)
    /\ ReceiverDelta(tx, post) # 0

\* lines 260-269: post.mint === usdcMint && post.owner === expectedReceiver,
\* then delta > 0
CreditsReceiver(tx, post, usdcMint, expectedReceiver) ==
    /\ post.mint = usdcMint
    /\ post.owner = Some(expectedReceiver)
    /\ ReceiverDelta(tx, post) > 0

\* lines 259-297, the loop over postBalances of the fallback: the first
\* entry that credits the receiver
ScanBalances(tx, usdcMint, expectedReceiver) ==
    LET hits == {i \in 1..Len(tx.post) :
                    CreditsReceiver(tx, tx.post[i], usdcMint, expectedReceiver)}
    IN  IF hits = {} THEN NotFoundResult
        ELSE LET delta == ReceiverDelta(tx, tx.post[Min(hits)])
             IN  [found |-> TRUE, error |-> None,
                  sender |-> FindSender(tx, usdcMint, expectedReceiver, delta),
                  receiver |-> Some(expectedReceiver),
                  amount |-> Some(delta)]

\* a parsed spl-token transfer / transferChecked, the latter of the right mint
IsTransferInstruction(ix, usdcMint) ==
    /\ ix.parsed
    /\ ix.program = "spl-token"
    /\ ix.type \in {"transfer", "transferChecked"}
    /\ (ix.type = "transferChecked" => ix.mint = Some(usdcMint))

\* lines 225-240, the sender loop inside the instruction loop, from entry k
\* of preBalances on: the owner of the first entry of the mint, not owned by
\* the receiver, whose balance dropped by exactly delta
RECURSIVE InstructionSender(_, _, _, _, _)
InstructionSender(tx, usdcMint, expectedReceiver, delta, k) ==
    IF k > Len(tx.pre) THEN None
    ELSE LET preB == tx.pre[k]
             postB == FindBalance(tx.post, preB.accountIndex)
             senderPost == IF IsSome(postB) THEN Val(postB).amount ELSE 0
         IN  IF /\ preB.mint = usdcMint
                /\ preB.owner # Some(expectedReceiver)
                /\ preB.amount - senderPost = delta
             THEN preB.owner
             ELSE InstructionSender(tx, usdcMint, expectedReceiver, delta, k + 1)

\* lines 209-250, the loop over postBalances inside the instruction loop,
\* from entry k on: returns at the first entry of the mint owned by the
\* receiver whose balance rose
RECURSIVE InstructionScan(_, _, _, _)
InstructionScan(tx, usdcMint, expectedReceiver, k) ==
    IF k > Len(tx.post) THEN NotFoundResult
    ELSE LET post == tx.post[k]
             pre == FindBalance(tx.pre, post.accountIndex)
             delta == post.amount - AmountOrZero(pre)
         IN  IF /\ post.mint = usdcMint
                /\ post.owner = Some(expectedReceiver)
                /\ delta > 0
             THEN [found |-> TRUE, error |-> None,
                   sender |-> InstructionSender(tx, usdcMint, expectedReceiver,
                                                delta, 1),
                   receiver |-> Some(expectedReceiver),
                   amount |-> Some(delta)]
             ELSE InstructionScan(tx, usdcMint, expectedReceiver, k + 1)

\* lines 184-253, the loop over the instructions from instruction n on: at
\* each transfer instruction the post balances are scanned, and the function
\* returns when that scan finds a credit; NotFoundResult stands for the loop
\* having ended without a return
RECURSIVE InstructionPass(_, _, _, _)
InstructionPass(tx, usdcMint, expectedReceiver, n) ==
    IF n > Len(tx.instructions) THEN NotFoundResult
    ELSE IF /\ IsTransferInstruction(tx.instructions[n], usdcMint)
            /\ InstructionScan(tx, usdcMint, expectedReceiver, 1).found
         THEN InstructionScan(tx, usdcMint, expectedReceiver, 1)
         ELSE InstructionPass(tx, usdcMint, expectedReceiver, n + 1)

\* lines 255-302, the fallback after the loop: its own scan of the post
\* balances and its own sender loop
FallbackPass(tx, usdcMint, expectedReceiver) ==
    ScanBalances(tx, usdcMint, expectedReceiver)

\* mutant: the scan after the instruction loop is left out
MutFindInstructionsOnly(tx, usdcMint, expectedReceiver) ==
    InstructionPass(tx, usdcMint, expectedReceiver, 1)

findUSDCTransfer(tx, usdcMint, expectedReceiver) ==
    IF InstructionPass(tx, usdcMint, expectedReceiver, 1).found
    THEN InstructionPass(tx, usdcMint, expectedReceiver, 1)
    ELSE FallbackPass(tx, usdcMint, expectedReceiver)

(***************************************************************************)
(* verifyPayment after the ledger answered: lines 81-157 without the       *)
(* mutation of usedSignatures.  fetched is the option the RPC returned.    *)
(***************************************************************************)
\* if (txTimestamp): null and 0 are both falsy
HasBlockTime(tx) == IsSome(tx.blockTime) /\ Val(tx.blockTime) # 0

\* mutant: a transaction without a block time counts as too old
\* mutant: no transaction is too old
MutTooOldNever(tx, t) == FALSE

MutTooOldWhenUntimed(tx, t) ==
    \/ ~IsSome(tx.blockTime)
    \/ HasBlockTime(tx) /\ t - Val(tx.blockTime) > MAX_TX_AGE_SECONDS

\* mutant: the end of the freshness window is excluded
MutTooOldInclusive(tx, t) ==
    HasBlockTime(tx) /\ t - Val(tx.blockTime) >= MAX_TX_AGE_SECONDS

TooOld(tx, t)     == HasBlockTime(tx) /\ t - Val(tx.blockTime) > MAX_TX_AGE_SECONDS
FromFuture(tx, t) == HasBlockTime(tx) /\ t - Val(tx.blockTime) < -FUTURE_SKEW_SECONDS

\* mutant: the amount check is skipped
MutAmountNotChecked(amount, expectedAmount) == FALSE

\* mutant: the boundary of the tolerance is excluded
MutAmountToleranceStrict(amount, expectedAmount) ==
    Abs(amount - ToRawUnits(expectedAmount).units) >= AMOUNT_TOLERANCE

AmountOutOfTolerance(amount, expectedAmount) ==
    FartherThan(amount, ToRawUnits(expectedAmount), AMOUNT_TOLERANCE)

\* mutant: the freshness check comes before the on-chain error check
MutCheckFreshnessFirst(fetched, t, expectedAmount, expectedReceiver, usdcMint) ==
    IF ~IsSome(fetched) THEN Invalid(ErrNotFound, None, None)
    ELSE LET tx == Val(fetched)
             transferResult == findUSDCTransfer(tx, usdcMint, expectedReceiver)
         IN  IF TooOld(tx, t) THEN Invalid(ErrTooOld, None, tx.blockTime)
             ELSE IF FromFuture(tx, t) THEN Invalid(ErrFromFuture, None, tx.blockTime)
             ELSE IF tx.err THEN Invalid(ErrTxFailed, None, None)
             ELSE IF ~transferResult.found
                  THEN Invalid(Val(transferResult.error), None, None)
             ELSE IF AmountOutOfTolerance(Val(transferResult.amount), expectedAmount)
                  THEN Invalid(ErrAmountMismatch,
                               Some(FromRawUnits(Val(transferResult.amount))), None)
             ELSE [valid |-> TRUE, error |-> None,
                   sender |-> transferResult.sender,
                   receiver |-> transferResult.receiver,
                   amount |-> Some(FromRawUnits(Val(transferResult.amount))),
                   timestamp |-> tx.blockTime,
                   slot |-> Some(tx.slot)]

\* lines 81-139 and 150-157: the checks in the order of the source
CheckTransaction(fetched, t, expectedAmount, expectedReceiver, usdcMint) ==
    IF ~IsSome(fetched) THEN Invalid(ErrNotFound, None, None)
    ELSE LET tx == Val(fetched)
             transferResult == findUSDCTransfer(tx, usdcMint, expectedReceiver)
         IN  IF tx.err THEN Invalid(ErrTxFailed, None, None)
             ELSE IF TooOld(tx, t) THEN Invalid(ErrTooOld, None, tx.blockTime)
             ELSE IF FromFuture(tx, t) THEN Invalid(ErrFromFuture, None, tx.blockTime)
             ELSE IF ~transferResult.found
                  THEN Invalid(Val(transferResult.error), None, None)
             ELSE IF AmountOutOfTolerance(Val(transferResult.amount), expectedAmount)
                  THEN Invalid(ErrAmountMismatch,
                               Some(FromRawUnits(Val(transferResult.amount))), None)
             ELSE [valid |-> TRUE, error |-> None,
                   sender |-> transferResult.sender,
                   receiver |-> transferResult.receiver,
                   amount |-> Some(FromRawUnits(Val(transferResult.amount))),
                   timestamp |-> tx.blockTime,
                   slot |-> Some(tx.slot)]

\* mutant: the clean-up drops the newest entries
MutAddSignatureEvictNewest(used, signature) ==
    LET added == IF \E i \in 1..Len(used) : used[i] = signature
                 THEN used ELSE Append(used, signature)
    IN  IF Len(added) > REPLAY_HIGH_WATER
        THEN SubSeq(added, 1, Len(added) - REPLAY_EVICT_COUNT)
        ELSE added

\* mutant: the clean-up is left to a later step
MutAddSignatureDefersCleanup(used, signature) ==
    IF \E i \in 1..Len(used) : used[i] = signature
    THEN used ELSE Append(used, signature)

\* usedSignatures.add(signature), then the clean-up of lines 145-148
AddSignature(used, signature) ==
    LET added == IF \E i \in 1..Len(used) : used[i] = signature
                 THEN used ELSE Append(used, signature)
    IN  IF Len(added) > REPLAY_HIGH_WATER
        THEN SubSeq(added, REPLAY_EVICT_COUNT + 1, Len(added))
        ELSE added

\* mutant: the replay check never hits
MutHasSignatureNever(used, signature) == FALSE

\* usedSignatures.has(signature)
HasSignature(used, signature) == \E i \in 1..Len(used) : used[i] = signature

(***************************************************************************)
(* The Authorization header: authHeader.replace(/^bearer\s+/i, '').trim()  *)
(***************************************************************************)
\* the ECMAScript white-space class that \s and trim() share: WhiteSpace and
\* LineTerminator.  A character without an escape in this notation is named
\* by its code point.
WHITE_SPACE ==
    {" ", "\t", "\n", "\f", "\r",
     "U+0009", "U+000A", "U+000B", "U+000C", "U+000D", "U+0020", "U+00A0",
     "U+1680", "U+2000", "U+2001", "U+2002", "U+2003", "U+2004", "U+2005",
     "U+2006", "U+2007", "U+2008", "U+2009", "U+200A", "U+2028", "U+2029",
     "U+202F", "U+205F", "U+3000", "U+FEFF"}

IsSpace(c) == c \in WHITE_SPACE

Lower(c) ==
    CASE c = "A" -> "a" [] c = "B" -> "b" [] c = "C" -> "c" [] c = "D" -> "d"
      [] c = "E" -> "e" [] c = "F" -> "f" [] c = "G" -> "g" [] c = "H" -> "h"
      [] c = "I" -> "i" [] c = "J" -> "j" [] c = "K" -> "k" [] c = "L" -> "l"
      [] c = "M" -> "m" [] c = "N" -> "n" [] c = "O" -> "o" [] c = "P" -> "p"
      [] c = "Q" -> "q" [] c = "R" -> "r" [] c = "S" -> "s" [] c = "T" -> "t"
      [] c = "U" -> "u" [] c = "V" -> "v" [] c = "W" -> "w" [] c = "X" -> "x"
      [] c = "Y" -> "y" [] c = "Z" -> "z"
      [] OTHER -> c

RECURSIVE DropLeadingSpace(_)
DropLeadingSpace(s) ==
    IF s # <<>> /\ IsSpace(Head(s)) THEN DropLeadingSpace(Tail(s)) ELSE s

RECURSIVE DropTrailingSpace(_)
DropTrailingSpace(s) ==
    IF s # <<>> /\ IsSpace(s[Len(s)])
    THEN DropTrailingSpace(SubSeq(s, 1, Len(s) - 1)) ELSE s

Trim(s) == DropTrailingSpace(DropLeadingSpace(s))

BearerWord == <<"b", "e", "a", "r", "e", "r">>

\* /^bearer\s+/i matches: the word in any case, then at least one space
HasBearerPrefix(s) ==
    /\ Len(s) > Len(BearerWord)
    /\ \A i \in 1..Len(BearerWord) : Lower(s[i]) = BearerWord[i]
    /\ IsSpace(s[Len(BearerWord) + 1])

\* mutant: the prefix is matched in one spelling only
MutStripBearerExactCase(s) ==
    IF Len(s) > Len(BearerWord) /\ SubSeq(s, 1, Len(BearerWord) + 1)
                                     = <<"B", "e", "a", "r", "e", "r", " ">>
    THEN DropLeadingSpace(SubSeq(s, Len(BearerWord) + 1, Len(s)))
    ELSE s

StripBearer(s) ==
    IF HasBearerPrefix(s)
    THEN DropLeadingSpace(SubSeq(s, Len(BearerWord) + 1, Len(s)))
    ELSE s

ExtractSignature(authHeader) == Trim(StripBearer(authHeader))

\* mutant: only the empty signature is refused
MutMalformedEmptyOnly(signature) == signature = <<>>

\* !signature || signature.length < 80
IsMalformedSignature(signature) ==
    signature = <<>> \/ Len(signature) < MIN_SIGNATURE_LENGTH

(***************************************************************************)
(* The ledger the server queries.  A signature names one immutable         *)
(* transaction; what changes is whether the RPC node already returns it.   *)
(***************************************************************************)
SigLen == 80
BlockTime0 == 1000

SigOf(c) == [i \in 1..SigLen |-> c]
ShortProof == [i \in 1..(MIN_SIGNATURE_LENGTH - 1) |-> "G"]

PAYER == "ALICE"
OTHER_OWNER == "BOB"
NAMED_WALLET == "CAROL"

Bal(idx, mint, owner, amount) ==
    [accountIndex |-> idx, mint |-> mint, owner |-> Some(owner), amount |-> amount]

TransferIx ==
    [parsed |-> TRUE, program |-> "spl-token", type |-> "transfer", mint |-> None]

\* a transfer of `amount` from `from` to `to` in the devnet USDC mint
TransferTx(from, to, amount, err, blockTime) ==
    [err |-> err, blockTime |-> blockTime, slot |-> 7,
     instructions |-> <<TransferIx>>,
     pre  |-> <<Bal(1, USDC_MINTS["devnet"], from, 100000),
                Bal(2, USDC_MINTS["devnet"], to, 0)>>,
     post |-> <<Bal(1, USDC_MINTS["devnet"], from, 100000 - amount),
                Bal(2, USDC_MINTS["devnet"], to, amount)>>]

\* the receiver is credited, the payer's account is not among the snapshots
UnattributedTx(to, amount, blockTime) ==
    [err |-> FALSE, blockTime |-> blockTime, slot |-> 8,
     instructions |-> <<TransferIx>>,
     pre  |-> <<Bal(2, USDC_MINTS["devnet"], to, 0)>>,
     post |-> <<Bal(2, USDC_MINTS["devnet"], to, amount)>>]

SigGood      == SigOf("G")   \* pays the price to the receiver
SigLate      == SigOf("H")   \* pays the price, sender not attributable,
                             \* confirmed only after the server started
SigWrongRcv  == SigOf("W")   \* pays the price to another owner
SigUnderpaid == SigOf("M")   \* pays the receiver too little
SigFailed    == SigOf("F")   \* the payment failed on chain
SigUntimed   == SigOf("U")   \* pays the price; the node reports no block time

LedgerSigs == {SigGood, SigLate, SigWrongRcv, SigUnderpaid, SigFailed}

TxOf(sig) ==
    CASE sig = SigGood      -> TransferTx(PAYER, RECEIVER_WALLET, PRICE_USDC, FALSE,
                                          Some(BlockTime0))
      [] sig = SigLate      -> UnattributedTx(RECEIVER_WALLET, PRICE_USDC,
                                              Some(BlockTime0))
      [] sig = SigWrongRcv  -> TransferTx(PAYER, OTHER_OWNER, PRICE_USDC, FALSE,
                                          Some(BlockTime0))
      [] sig = SigUnderpaid -> TransferTx(PAYER, RECEIVER_WALLET, 30000, FALSE,
                                          Some(BlockTime0))
      [] sig = SigFailed    -> TransferTx(PAYER, RECEIVER_WALLET, PRICE_USDC, TRUE,
                                          Some(BlockTime0))
      [] sig = SigUntimed   -> TransferTx(PAYER, RECEIVER_WALLET, PRICE_USDC, FALSE,
                                          None)

\* connection.getParsedTransaction(signature): null when the node has none
GetParsedTransaction(conf, sig) ==
    IF sig \in conf THEN Some(TxOf(sig)) ELSE None

Bearer(sig)  == <<"B", "e", "a", "r", "e", "r", " ">> \o sig

\* the Authorization values clients send: none, empty, too short (raw and
\* Bearer), a signature of the ledger (raw and Bearer)
AuthHeaders ==
    {None, Some(<<>>), Some(ShortProof), Some(Bearer(ShortProof)),
     Some(Bearer(SigGood))}
        \cup {Some(s) : s \in LedgerSigs}

Methods == {"GET", "POST"}

\* a JSON value as a handler reads it: its type and its text.  A parameter of
\* the URL is a string.
JsonValue(type, text) == [type |-> type, text |-> text]
JsonString(text) == JsonValue("string", text)

\* the truthiness `||` and `!` test
Truthy(value) ==
    CASE value.type = "string" -> value.text # ""
      [] value.type = "number" -> value.text \notin {"0", "-0", "NaN"}
      [] value.type = "boolean" -> value.text = "true"
      [] value.type = "null" -> FALSE
      [] OTHER -> TRUE

\* searchParams.get('wallet'): null or a string
WalletParams == {None, Some(JsonString(NAMED_WALLET))}

\* body.wallet of a parsed body: absent, a string (empty or not), a number,
\* an array
BodyWallets ==
    WalletParams \cup {Some(JsonString("")), Some(JsonValue("number", "123")),
                       Some(JsonValue("number", "0")),
                       Some(JsonValue("array", "['CAROL']"))}

\* instants of the server clock, relative to the block time of the ledger's
\* transactions: at it, at the end of the freshness window, one second past it
EngineTimes ==
    {BlockTime0, BlockTime0 + MAX_TX_AGE_SECONDS, BlockTime0 + MAX_TX_AGE_SECONDS + 1}

\* ... and a server whose clock runs behind the ledger's by more than the skew
GateTimes ==
    EngineTimes \cup {BlockTime0 - FUTURE_SKEW_SECONDS - 1,
                      BlockTime0 - FUTURE_SKEW_SECONDS}

Networks == {"devnet", "testnet", "constructor"}

(***************************************************************************)
(* verifyPayment, split at its single await                                *)
(***************************************************************************)
\* mutant: a network without a mint is reported like a missing transaction
MutUnknownNetworkAsNotFound(used, signature, net) ==
    IF HasSignature(used, signature) THEN Some(Invalid(ErrReplay, None, None))
    ELSE IF ~IsSome(LookupMint(net))
         THEN Some(Invalid(ErrNotFound, None, None))
    ELSE None

\* mutant: the replay check is left out
MutBeforeFetchNoReplay(used, signature, net) ==
    IF ~IsSome(LookupMint(net))
    THEN Some(Invalid(ErrUnknownNetwork, None, None))
    ELSE None

\* lines 52-72: the replay check, then the mint lookup; None = go on to fetch
VerifyBeforeFetch(used, signature, net) ==
    IF HasSignature(used, signature) THEN Some(Invalid(ErrReplay, None, None))
    ELSE IF ~IsSome(LookupMint(net))
         THEN Some(Invalid(ErrUnknownNetwork, None, None))
    ELSE None

\* mutant: the failure of the query is not turned into a result
MutFaultUntyped(rpc, fetched, t, expectedAmount, expectedReceiver, net) ==
    IF rpc = "fault"
    THEN [valid |-> FALSE, error |-> None, sender |-> None, receiver |-> None,
          amount |-> None, timestamp |-> None, slot |-> None]
    ELSE CheckTransaction(fetched, t, expectedAmount, expectedReceiver,
                          Val(LookupMint(net)))

\* mutant: the catch block reports a missing transaction
MutFaultAsNotFound(rpc, fetched, t, expectedAmount, expectedReceiver, net) ==
    IF rpc = "fault" THEN Invalid(ErrNotFound, None, None)
    ELSE CheckTransaction(fetched, t, expectedAmount, expectedReceiver,
                          Val(LookupMint(net)))

\* lines 74-163: rpc = "fault" is getParsedTransaction throwing
VerifyAfterFetch(rpc, fetched, t, expectedAmount, expectedReceiver, net) ==
    IF rpc = "fault" THEN Invalid(ErrVerification, None, None)
    ELSE CheckTransaction(fetched, t, expectedAmount, expectedReceiver,
                          Val(LookupMint(net)))

\* mutant: the signature is recorded before the checks have passed
MutUsedAfterAlways(used, signature, result) == AddSignature(used, signature)

\* mutant: the signature is recorded whenever the ledger query settled
MutUsedAfterUnlessFault(used, signature, result) ==
    IF result.error = Some(ErrVerification) THEN used
    ELSE AddSignature(used, signature)

\* mutant: the signature is recorded once its transaction was fetched
MutUsedAfterFetched(used, signature, result) ==
    IF result.error \in {Some(ErrVerification), Some(ErrNotFound)} THEN used
    ELSE AddSignature(used, signature)

\* lines 141-148 are reached only by a result that is valid
UsedAfter(used, signature, result) ==
    IF result.valid THEN AddSignature(used, signature) ELSE used

(***************************************************************************)
(* The gate: GET and POST of /api/reputation                               *)
(***************************************************************************)
NoResponse == [status |-> 0, error |-> "", details |-> None,
               payment |-> None, required |-> None, payload |-> None,
               paymentSignature |-> None]

Requirement(net) ==
    [receiver |-> RECEIVER_WALLET, amount |-> PRICE_USDC, token |-> "USDC",
     network |-> net]

createPaymentRequiredResponse(net) ==
    [status |-> 402, error |-> "", details |-> None,
     payment |-> Some(Requirement(IF net = "devnet" THEN "Solana Devnet"
                                                    ELSE "Solana Mainnet")),
     required |-> None, payload |-> None, paymentSignature |-> None]

InvalidFormatResponse ==
    [status |-> 400,
     error |-> "Invalid authorization format. Expected Solana transaction signature.",
     details |-> None, payment |-> None, required |-> None, payload |-> None,
     paymentSignature |-> None]

\* mutant: the engine's error is not passed on
MutFailedResponseHidesError(verification, net) ==
    [status |-> 402, error |-> "Payment verification failed",
     details |-> None, payment |-> None, required |-> Some(Requirement(net)),
     payload |-> None, paymentSignature |-> None]

\* GET 209-224, POST 302-317: the requirement is under the key `required`
VerificationFailedResponse(verification, net) ==
    [status |-> 402, error |-> "Payment verification failed",
     details |-> verification.error, payment |-> None,
     required |-> Some(Requirement(net)),
     payload |-> None, paymentSignature |-> None]

NoWalletResponse(method) ==
    [status |-> 400,
     error |-> IF method = "GET"
               THEN "No wallet address provided and could not determine payer wallet"
               ELSE "No wallet address provided",
     details |-> None, payment |-> None, required |-> None, payload |-> None,
     paymentSignature |-> None]

\* the fields of generateReputationData that depend on the payment
generateReputationData(walletAddress, verification) ==
    [walletAddress |-> walletAddress,
     txSignature |-> IF IsSome(verification.sender) /\ Val(verification.sender) # ""
                     THEN "Verified from sender" ELSE "Verified",
     paidAmount |-> IF IsSome(verification.amount) /\ Val(verification.amount) # 0
                    THEN Val(verification.amount) ELSE PRICE_USDC]

\* searchParams.get('wallet') || verification.sender  (body.wallet for POST)
QueryWallet(wallet, verification) ==
    IF IsSome(wallet) /\ Truthy(Val(wallet)) THEN wallet
    ELSE IF IsSome(verification.sender)
         THEN Some(JsonString(Val(verification.sender)))
    ELSE None

\* line 85: walletAddress.split('') throws a TypeError for a query wallet
\* that passed `!queryWallet` and is no string
SplitThrows(verification, wallet) ==
    /\ verification.valid
    /\ LET queryWallet == QueryWallet(wallet, verification)
       IN  /\ IsSome(queryWallet)
           /\ Truthy(Val(queryWallet))
           /\ Val(queryWallet).type # "string"

\* the response the handler builds from the verification result and the
\* wallet the caller named (GET 209-254, POST 302-349), when it builds one
GateRespond(method, signature, verification, wallet, net) ==
    IF ~verification.valid THEN VerificationFailedResponse(verification, net)
    ELSE LET queryWallet == QueryWallet(wallet, verification)
         IN  IF ~IsSome(queryWallet) \/ ~Truthy(Val(queryWallet))
             THEN NoWalletResponse(method)
             ELSE [status |-> 200, error |-> "", details |-> None,
                   payment |-> None, required |-> None,
                   payload |-> Some(generateReputationData(Val(queryWallet).text,
                                                           verification)),
                   paymentSignature |-> Some(signature)]

\* mutant: only a missing header counts as no credential
MutNoAuthHeaderMissingOnly(authHeader) == ~IsSome(authHeader)

\* !authHeader: the header is missing or empty
NoAuthHeader(authHeader) == ~IsSome(authHeader) \/ Val(authHeader) = <<>>

(***************************************************************************)
(* Server state machine                                                    *)
(***************************************************************************)
MaxCalls == 3
CallIds == 1..MaxCalls

IdleCall ==
    [pc |-> "idle", method |-> "", authHeader |-> None, wallet |-> None,
     overlaps |-> {}, ledger |-> None, verification |-> None,
     response |-> NoResponse]

SignatureOf(call) == ExtractSignature(Val(call.authHeader))

\* the calls suspended in getParsedTransaction
Awaiting == {j \in CallIds : calls[j].pc = "awaitLedger"}

ServerInitAt(t) ==
    /\ usedSignatures = <<>>
    /\ network \in Networks
    /\ now = t
    /\ confirmed = LedgerSigs \ {SigLate}
    /\ calls = [i \in CallIds |-> IdleCall]

\* A request arrives and its handler runs up to its first await.  A request
\* without a well-formed proof is answered at once.  Otherwise the handler
\* calls verifyPayment and waits for its promise: verifyPayment either
\* returns before any await (pc "verified": the handler resumes in a later
\* turn) or suspends in the ledger query (pc "awaitLedger").
\* wallet is the wallet parameter of the URL, which only GET reads.
\* overlaps records the calls that are suspended in the ledger query at that
\* moment; ledger records the query of this call: None while none was
\* issued, then "pending", then how it settled.
Request(i, method, authHeader, wallet) ==
    /\ calls[i].pc = "idle"
    /\ \A j \in CallIds : j < i => calls[j].pc # "idle"
    /\ LET base == [IdleCall EXCEPT !.method = method, !.authHeader = authHeader,
                                    !.wallet = wallet, !.overlaps = Awaiting]
           signature == ExtractSignature(Val(authHeader))
           early == VerifyBeforeFetch(usedSignatures, signature, network)
       IN  calls' = [calls EXCEPT ![i] =
              IF NoAuthHeader(authHeader)
              THEN [base EXCEPT !.pc = "done",
                                !.response = createPaymentRequiredResponse(network)]
              ELSE IF IsMalformedSignature(signature)
              THEN [base EXCEPT !.pc = "done", !.response = InvalidFormatResponse]
              ELSE IF IsSome(early)
              THEN [base EXCEPT !.pc = "verified", !.verification = early]
              ELSE [base EXCEPT !.pc = "awaitLedger", !.ledger = Some("pending")]]
    /\ UNCHANGED <<usedSignatures, network, now, confirmed>>
    /\ UNCHANGED <<txVars, clientVars>>

\* The ledger query of call i settles and verifyPayment runs to its return:
\* on success it has inserted the signature into the replay set.  The
\* handler that awaits the result has not resumed yet.
LedgerAnswer(i, rpc) ==
    /\ calls[i].pc = "awaitLedger"
    /\ LET signature == SignatureOf(calls[i])
           result == VerifyAfterFetch(rpc, GetParsedTransaction(confirmed, signature),
                                      now, PRICE_USDC, RECEIVER_WALLET, network)
       IN  /\ usedSignatures' = UsedAfter(usedSignatures, signature, result)
           /\ calls' = [calls EXCEPT ![i] =
                  [@ EXCEPT !.pc = "verified", !.ledger = Some(rpc),
                            !.verification = Some(result)]]
    /\ UNCHANGED <<network, now, confirmed>>
    /\ UNCHANGED <<txVars, clientVars>>

\* The handler of call i resumes from `await verifyPayment(...)`.  GET
\* answers; POST answers a failed verification, and after a successful one
\* waits for the request body in `await request.json()`.
HandlerResumes(i) ==
    /\ calls[i].pc = "verified"
    /\ LET verification == Val(calls[i].verification)
       IN  calls' = [calls EXCEPT ![i] =
              IF calls[i].method = "POST" /\ verification.valid
              THEN [@ EXCEPT !.pc = "awaitBody"]
              ELSE [@ EXCEPT !.pc = "done",
                             !.response = GateRespond(calls[i].method,
                                             SignatureOf(calls[i]), verification,
                                             calls[i].wallet, network)]]
    /\ UNCHANGED <<usedSignatures, network, now, confirmed>>
    /\ UNCHANGED <<txVars, clientVars>>

\* request.json() of a POST settles and the handler goes on: with the parsed
\* body, whose wallet is any JSON value or absent, or by throwing (no body,
\* or one that is not JSON), which the handler catches.  A wallet that is
\* truthy and no string makes generateReputationData throw outside any try:
\* the handler ends without a response of its own (pc "threw").  A body that
\* never arrives leaves the call in "awaitBody".
BodySettles(i, parsed, wallet) ==
    /\ calls[i].pc = "awaitBody"
    /\ ~parsed => wallet = None
    /\ calls' = [calls EXCEPT ![i] =
          IF SplitThrows(Val(calls[i].verification), wallet)
          THEN [@ EXCEPT !.pc = "threw", !.wallet = wallet]
          ELSE [@ EXCEPT !.pc = "done", !.wallet = wallet,
                         !.response = GateRespond(calls[i].method,
                                         SignatureOf(calls[i]),
                                         Val(calls[i].verification), wallet,
                                         network)]]
    /\ UNCHANGED <<usedSignatures, network, now, confirmed>>
    /\ UNCHANGED <<txVars, clientVars>>

\* the clock advances
Tick(t) ==
    /\ t > now
    /\ now' = t
    /\ UNCHANGED <<usedSignatures, network, confirmed, calls>>
    /\ UNCHANGED <<txVars, clientVars>>

\* the RPC node learns of a transaction
Confirm(sig) ==
    /\ sig \in LedgerSigs \ confirmed
    /\ confirmed' = confirmed \cup {sig}
    /\ UNCHANGED <<usedSignatures, network, now, calls>>
    /\ UNCHANGED <<txVars, clientVars>>

\* the response has been sent, or the handler threw: the invocation is gone
Retire(i) ==
    /\ calls[i].pc \in {"done", "threw"}
    /\ calls' = [calls EXCEPT ![i] = IdleCall]
    /\ UNCHANGED <<usedSignatures, network, now, confirmed>>
    /\ UNCHANGED <<txVars, clientVars>>

TxIdle == txIn = None /\ txExpected = PRICE_USDC /\ txOut = None /\ xferOut = None
PayIdle == pay = None

Init == ServerInitAt(BlockTime0) /\ TxIdle /\ PayIdle

(***************************************************************************)
(* Spec: the verification engine under concurrent requests.  Up to         *)
(* MaxCalls handler invocations, each kept after it returned; every        *)
(* request carries a raw signature of the ledger.  Requests and the        *)
(* answers of the ledger are delivered by the event loop as tasks; the     *)
(* resumption of a handler whose verifyPayment returned is a microtask,    *)
(* which runs before the next task is taken.                               *)
(***************************************************************************)
EngineHeaders == {Some(SigGood), Some(SigLate), Some(SigUnderpaid)}

\* no handler is waiting to resume: the microtask queue is empty
Quiescent == \A j \in CallIds : calls[j].pc # "verified"

Next ==
    \/ \E i \in CallIds, a \in EngineHeaders :
          Quiescent /\ Request(i, "GET", a, None)
    \/ \E i \in CallIds, rpc \in {"ok", "fault"} :
          Quiescent /\ LedgerAnswer(i, rpc)
    \/ \E i \in CallIds : HandlerResumes(i)
    \/ Quiescent /\ Tick(BlockTime0 + MAX_TX_AGE_SECONDS + 1)
    \/ \E sig \in LedgerSigs : Quiescent /\ Confirm(sig)

\* a server configured for a network that has a mint
EngineInit == Init /\ network \in DOMAIN USDC_MINTS

Spec == EngineInit /\ [][Next]_vars

(***************************************************************************)
(* GateSpec: the gate serving one request after another, with every shape  *)
(* of request: either method, any Authorization value, wallet named or not *)
(***************************************************************************)
GateNext ==
    \/ \E m \in Methods, a \in AuthHeaders, w \in WalletParams :
          (m = "POST" => w = None) /\ Request(1, m, a, w)
    \/ \E rpc \in {"ok", "fault"} : LedgerAnswer(1, rpc)
    \/ HandlerResumes(1)
    \/ \E parsed \in BOOLEAN, w \in BodyWallets : BodySettles(1, parsed, w)
    \/ Retire(1)
    \/ \E t \in GateTimes : Tick(t)
    \/ \E sig \in LedgerSigs : Confirm(sig)

GateInit ==
    ServerInitAt(BlockTime0 - FUTURE_SKEW_SECONDS - 1) /\ TxIdle /\ PayIdle

GateSpec == GateInit /\ [][GateNext]_vars

(***************************************************************************)
(* FormSpec: the gate of a server configured for a network that has a      *)
(* mint, handed FormCalls requests, each after the verification of the     *)
(* earlier ones returned (their handlers may not have resumed yet, and a   *)
(* POST may still wait for its body), each carrying a signature of the     *)
(* ledger in one of the forms a client may write it in: raw, behind the    *)
(* word Bearer in some letter case, with white space after or around it.   *)
(* The Headers object of the runtime strips white space   *)
(* around a header value, so a value never starts with white space when    *)
(* the handler reads it; white space before a raw signature is included    *)
(* nevertheless, as the handler's own trim() removes it.                   *)
(***************************************************************************)
FormCalls == 2

ProofForms(sig) ==
    {sig,
     Bearer(sig),
     <<"b", "e", "a", "r", "e", "r", " ">> \o sig,
     <<"B", "E", "A", "R", "E", "R", "\t", " ">> \o sig,
     <<"b", "E", "a", "R", "e", "R", "U+00A0">> \o sig \o <<"\f">>,
     <<" ">> \o sig \o <<"\t", " ">>}

\* the proof of a good payment in every form, that of an underpayment raw
FormHeaders == {Some(form) : form \in ProofForms(SigGood)} \cup {Some(SigUnderpaid)}

FormNext ==
    \/ \E i \in 1..FormCalls, m \in Methods, a \in FormHeaders :
          Awaiting = {} /\ Request(i, m, a, None)
    \/ \E i \in 1..FormCalls, rpc \in {"ok", "fault"} : LedgerAnswer(i, rpc)
    \/ \E i \in 1..FormCalls : HandlerResumes(i)
    \/ \E i \in 1..FormCalls : BodySettles(i, TRUE, None)

FormInit ==
    ServerInitAt(BlockTime0) /\ network \in DOMAIN USDC_MINTS /\ TxIdle /\ PayIdle

FormSpec == FormInit /\ [][FormNext]_vars

(***************************************************************************)
(* VerifySpec: verifyPayment called directly.  It is an exported function, *)
(* so a caller other than the route handlers reaches it with any string.   *)
(* A direct call occupies a slot of `calls` with method "verify"; its      *)
(* signature argument is kept, as passed, in the authHeader field, and it  *)
(* produces no HTTP response.  The ledger query of a call either settles   *)
(* (with the transaction or null, or by throwing) or never settles.        *)
(***************************************************************************)
\* the signature arguments: empty, 79 characters, a payment of the ledger
DirectSignatures == {<<>>, ShortProof, SigGood}

\* verifyPayment(signature, PRICE_USDC, RECEIVER_WALLET, network) up to its await
verifyPayment(i, signature) ==
    /\ calls[i].pc = "idle"
    /\ \A j \in CallIds : j < i => calls[j].pc # "idle"
    /\ LET base == [IdleCall EXCEPT !.method = "verify",
                                    !.authHeader = Some(signature),
                                    !.overlaps = Awaiting]
           early == VerifyBeforeFetch(usedSignatures, signature, network)
       IN  calls' = [calls EXCEPT ![i] =
              IF IsSome(early)
              THEN [base EXCEPT !.pc = "done", !.verification = early]
              ELSE [base EXCEPT !.pc = "awaitLedger", !.ledger = Some("pending")]]
    /\ UNCHANGED <<usedSignatures, network, now, confirmed>>
    /\ UNCHANGED <<txVars, clientVars>>

\* the promise of getParsedTransaction settles and verifyPayment runs to its return
verifyPaymentResumes(i, rpc) ==
    /\ calls[i].pc = "awaitLedger"
    /\ calls[i].method = "verify"
    /\ calls[i].ledger = Some("pending")
    /\ LET signature == Val(calls[i].authHeader)
           result == VerifyAfterFetch(rpc, GetParsedTransaction(confirmed, signature),
                                      now, PRICE_USDC, RECEIVER_WALLET, network)
       IN  /\ usedSignatures' = UsedAfter(usedSignatures, signature, result)
           /\ calls' = [calls EXCEPT ![i] =
                  [@ EXCEPT !.pc = "done", !.ledger = Some(rpc),
                            !.verification = Some(result)]]
    /\ UNCHANGED <<network, now, confirmed>>
    /\ UNCHANGED <<txVars, clientVars>>

\* the RPC node stops answering the query of call i: its promise never
\* settles.  verifyPayment sets no timer and passes no abort signal (lines
\* 64 and 76-79), so no step of the call is left.
LedgerHangs(i) ==
    /\ calls[i].pc = "awaitLedger"
    /\ calls[i].ledger = Some("pending")
    /\ calls' = [calls EXCEPT ![i].ledger = Some("hung")]
    /\ UNCHANGED <<usedSignatures, network, now, confirmed>>
    /\ UNCHANGED <<txVars, clientVars>>

VerifyNext ==
    \/ \E i \in CallIds, s \in DirectSignatures : verifyPayment(i, s)
    \/ \E i \in CallIds, rpc \in {"ok", "fault"} : verifyPaymentResumes(i, rpc)
    \/ \E i \in CallIds : LedgerHangs(i)

\* while a query that the node has not dropped is outstanding, one of them
\* is answered and the runtime resumes the call that awaits it
VerifyFairness ==
    WF_vars(\E i \in CallIds, rpc \in {"ok", "fault"} : verifyPaymentResumes(i, rpc))

VerifySpec == Init /\ [][VerifyNext]_vars /\ VerifyFairness

(***************************************************************************)
(* EvictSpec: verifyPayment called, one call after another, by a process  *)
(* whose replay set is nearly full.  The set starts with the signatures of *)
(* earlier accepted payments, oldest first; the calls present two payments *)
(* of the ledger, an underpayment, the oldest of the earlier signatures    *)
(* and the first one that a clean-up keeps.                                *)
(***************************************************************************)
FillMargin == 2

\* the signature of the k-th payment accepted earlier
Filler(k) == <<ToString(k)>>

\* the replay set after n accepted payments, in insertion order
Filled(n) == [k \in 1..n |-> Filler(k)]

EvictSignatures ==
    {SigGood, SigLate, SigUnderpaid, Filler(1), Filler(REPLAY_EVICT_COUNT + 1)}

EvictInit ==
    /\ \E n \in (REPLAY_HIGH_WATER - FillMargin)..REPLAY_HIGH_WATER :
           usedSignatures = Filled(n)
    /\ network = "devnet"
    /\ now = BlockTime0
    /\ confirmed = LedgerSigs
    /\ calls = [i \in CallIds |-> IdleCall]
    /\ TxIdle /\ PayIdle

EvictNext ==
    \/ \E s \in EvictSignatures : verifyPayment(1, s)
    \/ \E rpc \in {"ok", "fault"} : verifyPaymentResumes(1, rpc)
    \/ Retire(1)

EvictSpec == EvictInit /\ [][EvictNext]_vars

(***************************************************************************)
(* GuardSpec: the replay guard of a process that has accepted many         *)
(* payments.  Up to GuardCalls calls of verifyPayment run, overlapping or  *)
(* one after another, while the clock advances and clearUsedSignatures may *)
(* be called.  The set starts nearly full; its two oldest entries are      *)
(* payments of the ledger accepted when the process was young, one with a  *)
(* block time and one for which the node reports none.  Every transaction  *)
(* of the ledger was confirmed at BlockTime0.                              *)
(***************************************************************************)
GuardCalls == 2

\* mutant: any signature is reported used while the set is not empty
MutIsSignatureUsedWhileAny(signature) == usedSignatures # <<>>

\* usedSignatures.has(signature) on the module's set: lines 315-317
isSignatureUsed(signature) == HasSignature(usedSignatures, signature)

\* usedSignatures.clear(): lines 308-310
clearUsedSignatures ==
    /\ usedSignatures # <<>>
    /\ usedSignatures' = <<>>
    /\ UNCHANGED <<network, now, confirmed, calls>>
    /\ UNCHANGED <<txVars, clientVars>>

\* the replay set after n accepted payments, the first two being SigGood
\* and SigUntimed
Aged(n) == [k \in 1..n |-> IF k = 1 THEN SigGood
                            ELSE IF k = 2 THEN SigUntimed ELSE Filler(k)]

GuardSignatures == {SigGood, SigUntimed, SigLate}

GuardInit ==
    /\ \E n \in (REPLAY_HIGH_WATER - 1)..REPLAY_HIGH_WATER :
           usedSignatures = Aged(n)
    /\ network = "devnet"
    /\ now = BlockTime0 + MAX_TX_AGE_SECONDS
    /\ confirmed = LedgerSigs \cup {SigUntimed}
    /\ calls = [i \in CallIds |-> IdleCall]
    /\ TxIdle /\ PayIdle

GuardNext ==
    \/ \E i \in 1..GuardCalls, s \in GuardSignatures : verifyPayment(i, s)
    \/ \E i \in 1..GuardCalls : verifyPaymentResumes(i, "ok")
    \/ Tick(BlockTime0 + MAX_TX_AGE_SECONDS + 1)
    \/ clearUsedSignatures

GuardSpec == GuardInit /\ [][GuardNext]_vars

(***************************************************************************)
(* TxSpec: verifyPayment applied to one transaction the ledger returned,   *)
(* for a bounded family of transactions                                    *)
(***************************************************************************)
NumAccounts == 2
AmountMargin == 5
AgeMargin == 5

Accounts == 1..NumAccounts
SnapshotAmounts == {None, Some(0), Some(PRICE_USDC)}

CheckedIx(mint) ==
    [parsed |-> TRUE, program |-> "spl-token", type |-> "transferChecked",
     mint |-> Some(mint)]

UnparsedIx ==
    [parsed |-> FALSE, program |-> "", type |-> "", mint |-> None]

InstructionLists ==
    {<<>>, <<TransferIx>>, <<CheckedIx(OTHER_MINT)>>,
     <<UnparsedIx, CheckedIx(USDC_MINTS["devnet"])>>}

\* the snapshot entries of the accounts that have one, by account index
RECURSIVE Snapshot(_, _, _, _)
Snapshot(mints, owners, amounts, a) ==
    IF a > NumAccounts THEN <<>>
    ELSE (IF IsSome(amounts[a])
          THEN <<Bal(a, mints[a], owners[a], Val(amounts[a]))>> ELSE <<>>)
         \o Snapshot(mints, owners, amounts, a + 1)

\* every transaction over NumAccounts token accounts: each of either mint,
\* owned by the receiver or by the payer, absent / empty / holding the price
\* before and after
BalanceTxs ==
    {[err |-> FALSE, blockTime |-> Some(BlockTime0), slot |-> 9,
      instructions |-> ixs,
      pre |-> Snapshot(mints, owners, pres, 1),
      post |-> Snapshot(mints, owners, posts, 1)] :
        mints \in [Accounts -> {USDC_MINTS["devnet"], OTHER_MINT}],
        owners \in [Accounts -> {RECEIVER_WALLET, PAYER}],
        pres \in [Accounts -> SnapshotAmounts],
        posts \in [Accounts -> SnapshotAmounts],
        ixs \in InstructionLists}

\* a plain payment to the receiver of every amount around the tolerance band
AmountTxs ==
    {TransferTx(PAYER, RECEIVER_WALLET, d, FALSE, Some(BlockTime0)) :
        d \in (PRICE_USDC - AMOUNT_TOLERANCE - AmountMargin)
              ..(PRICE_USDC + AMOUNT_TOLERANCE + AmountMargin)}

\* the payment of the price at every age around the freshness window: the
\* block time runs from AgeMargin seconds past the future skew to AgeMargin
\* seconds past the maximum age
FreshnessTxs ==
    {TransferTx(PAYER, RECEIVER_WALLET, PRICE_USDC, FALSE, Some(BlockTime0 - age)) :
        age \in (-FUTURE_SKEW_SECONDS - AgeMargin)..(MAX_TX_AGE_SECONDS + AgeMargin)}

\* transactions whose block time is null (not yet available): the payment
\* of the price, an underpayment, a payment to another owner, a failed payment and
\* a payment whose sender is not among the snapshots
UntimedTxs ==
    {TransferTx(PAYER, to, amount, err, bt) :
        to \in {RECEIVER_WALLET, OTHER_OWNER}, amount \in {PRICE_USDC, 30000},
        err \in BOOLEAN, bt \in {None}}
    \cup {UnattributedTx(RECEIVER_WALLET, PRICE_USDC, None)}

TxFamily == BalanceTxs \cup AmountTxs \cup FreshnessTxs \cup UntimedTxs

TxInit ==
    /\ usedSignatures = <<>>
    /\ network = "devnet"
    /\ now = BlockTime0
    /\ confirmed = {}
    /\ calls = [i \in CallIds |-> IdleCall]
    /\ txIn \in {Some(tx) : tx \in TxFamily}
    /\ txExpected = PRICE_USDC
    /\ txOut = None /\ xferOut = None
    /\ PayIdle

\* the signature under which the ledger holds txIn
TxSignature == SigOf("T")

\* the ledger returned txIn: verifyPayment from line 81 on (the signature is
\* recorded when the result is valid), and the extractor's own answer
VerifyTransaction ==
    /\ txOut = None
    /\ txOut' = Some(VerifyAfterFetch("ok", txIn, now, txExpected,
                                      RECEIVER_WALLET, network))
    /\ xferOut' = Some(findUSDCTransfer(Val(txIn), Val(LookupMint(network)),
                                        RECEIVER_WALLET))
    /\ usedSignatures' = UsedAfter(usedSignatures, TxSignature, Val(txOut'))
    /\ UNCHANGED <<network, now, confirmed, calls>>
    /\ UNCHANGED <<txIn, txExpected, clientVars>>

TxNext == VerifyTransaction

TxSpec == TxInit /\ [][TxNext]_vars

(***************************************************************************)
(* AmountSpec: verifyPayment called with one of several expected amounts   *)
(* on a plain payment to the receiver whose amount lies around either edge *)
(* of the tolerance band of that expected amount.                          *)
(***************************************************************************)
\* expected amounts in millionths: the configured price, 0.07, and decimals
\* whose product with 1_000_000 is not a whole number in doubles
ExpectedAmounts == {PRICE_USDC, 70000, 978, 1001, 3910, 15626}

EdgeAmounts(expected) ==
    {d \in ((expected - AMOUNT_TOLERANCE - AmountMargin)
               ..(expected - AMOUNT_TOLERANCE + AmountMargin))
           \cup ((expected + AMOUNT_TOLERANCE - AmountMargin)
                   ..(expected + AMOUNT_TOLERANCE + AmountMargin)) : d >= 1}

AmountInit ==
    /\ usedSignatures = <<>>
    /\ network = "devnet"
    /\ now = BlockTime0
    /\ confirmed = {}
    /\ calls = [i \in CallIds |-> IdleCall]
    /\ txExpected \in ExpectedAmounts
    /\ \E d \in EdgeAmounts(txExpected) :
          txIn = Some(TransferTx(PAYER, RECEIVER_WALLET, d, FALSE, Some(BlockTime0)))
    /\ txOut = None /\ xferOut = None
    /\ PayIdle

AmountSpec == AmountInit /\ [][TxNext]_vars

(***************************************************************************)
(* The paying client: AgentWallet.pay                                      *)
(*                                                                         *)
(* A requirement descriptor is the JSON body of the 402 response, already  *)
(* reduced to `response.payment || response`: the fields receiver and      *)
(* amount are options.  A parsed amount is an option too: Some(v) is v     *)
(* decimal steps, None is NaN.                                             *)
(***************************************************************************)
\* how many client-side decimal steps make one smallest unit of the token
DecimalGrid == 10

\* the decimal quantity that is exactly raw smallest units
Usdc(raw) == raw * DecimalGrid

\* Math.round(amount * 1_000_000) (line 259): the whole number of smallest
\* units nearest to the double product.  The product is closer to the
\* decimal product than any decimal step is to a half, so only an amount
\* that is exactly halfway between two smallest units depends on it: the
\* half rounds up unless the double product fell below it.
AmountRaw(amount) ==
    LET nearest == (2 * amount + DecimalGrid) \div (2 * DecimalGrid)
        halfway == (2 * amount + DecimalGrid) % (2 * DecimalGrid) = 0
        ulps == IF amount > 0 THEN ProductOfPositive(amount, DecimalGrid).ulps
                ELSE - ProductOfPositive(- amount, DecimalGrid).ulps
    IN  IF halfway /\ amount # 0 /\ ulps = -1 THEN nearest - 1 ELSE nearest

NaN == None
IsNumber(x) == IsSome(x)

\* a JSON amount field: a number, or a string with or without "$"
NumField(v) == [kind |-> "number", text |-> "", value |-> Some(v)]
StrField(text, v) == [kind |-> "string", text |-> text, value |-> v]

\* payment.amount?.toString().replace('$', ''): the text parseFloat gets;
\* value is what parseFloat makes of it (NaN when it is no number);
\* a string that is empty, or "$" alone, is falsy after the replace
FieldText(field) ==
    IF ~IsSome(field) THEN None
    ELSE IF Val(field).kind = "string" /\ Val(field).text \in {"", "$"} THEN None
    ELSE Some(Val(field).value)

\* parseFloat(amount text || price text || '0')
ParseAmount(amountField, priceField) ==
    IF IsSome(FieldText(amountField)) THEN Val(FieldText(amountField))
    ELSE IF IsSome(FieldText(priceField)) THEN Val(FieldText(priceField))
    ELSE Some(0)

\* payment.receiver || payment.address || payment.wallet || payment.recipient
FirstTruthy(options) ==
    LET hits == {i \in 1..Len(options) : IsSome(options[i]) /\ Val(options[i]) # ""}
    IN  IF hits = {} THEN None ELSE options[Min(hits)]

\* lines 293-311
parsePaymentRequirements(d) ==
    [receiver |-> FirstTruthy(<<d.receiver, d.address, d.wallet, d.recipient>>),
     amount |-> ParseAmount(d.amount, d.price)]

Descriptor(receiver, address, wallet, recipient, amount, price) ==
    [receiver |-> receiver, address |-> address, wallet |-> wallet,
     recipient |-> recipient, amount |-> amount, price |-> price]

\* how far below a whole smallest unit the off-grid decimals lie, in decimal
\* steps: less than half a smallest unit
OffGrid == 4

\* the bodies a 402 response may carry
Descriptors ==
    {Descriptor(Some(RECEIVER_WALLET), None, None, None,
                Some(NumField(Usdc(PRICE_USDC))), None),
     Descriptor(None, Some(RECEIVER_WALLET), None, None, None,
                Some(StrField("$0.05", Some(Usdc(PRICE_USDC))))),
     \* the receiver under the key wallet, under the key recipient, and
     \* after two keys that are empty
     Descriptor(None, None, Some(RECEIVER_WALLET), None,
                Some(NumField(Usdc(PRICE_USDC))), None),
     Descriptor(None, None, None, Some(OTHER_OWNER), None,
                Some(StrField("$0.05", Some(Usdc(PRICE_USDC))))),
     Descriptor(Some(""), Some(""), Some(RECEIVER_WALLET), None,
                Some(NumField(Usdc(PRICE_USDC))), None),
     Descriptor(Some(RECEIVER_WALLET), None, None, None,
                Some(NumField(Usdc(20000))), None),
     Descriptor(Some(RECEIVER_WALLET), None, None, None, None, None),
     Descriptor(Some(RECEIVER_WALLET), None, None, None,
                Some(StrField("free", NaN)), None),
     Descriptor(None, None, None, None, Some(NumField(Usdc(PRICE_USDC))), None),
     \* an amount between two smallest units, just below the price
     Descriptor(Some(RECEIVER_WALLET), None, None, None,
                Some(NumField(Usdc(PRICE_USDC) - OffGrid)), None),
     \* amounts halfway between two smallest units: the double product of
     \* the first falls below the half, that of the second does not
     Descriptor(Some(RECEIVER_WALLET), None, None, None,
                Some(NumField(Usdc(124) + DecimalGrid \div 2)), None),
     Descriptor(Some(RECEIVER_WALLET), None, None, None,
                Some(NumField(Usdc(1) + DecimalGrid \div 2)), None),
     Descriptor(Some(OTHER_OWNER), None, None, None, Some(NumField(0)), None),
     Descriptor(Some(RECEIVER_WALLET), None, None, None,
                Some(NumField(- Usdc(PRICE_USDC))), None)}

\* mutant: the budget is not enforced
MutExceedsBudgetNever(amount, maxAmount) == FALSE

\* requirements.amount > maxAmount (false for NaN)
ExceedsBudget(amount, maxAmount) == IsNumber(amount) /\ Val(amount) > maxAmount

\* response.ok
IsOk(status) == status >= 200 /\ status <= 299

PayResult(success, status, error, txSignature) ==
    [success |-> success, status |-> status, error |-> error,
     txSignature |-> txSignature]

\* the catch block of pay: lines 221-233
Caught(message) == PayResult(FALSE, 0, message, None)

ErrExceeds      == "Payment amount exceeds maximum"
ErrInsufficient == "Insufficient USDC balance"
ErrHttp         == "HTTP status"

CLIENT_SIGNATURE == "CLIENT_TX_SIGNATURE"
CALLER_TOKEN == "CALLER_TOKEN"

\* options.headers as the caller passes it: absent; a plain object with one
\* key, a sequence of characters; or a Headers instance or an array of
\* pairs, which has no own enumerable property named like a header
CallerHeaders(shape, key, value) == [shape |-> shape, key |-> key, value |-> value]
NoHeaders == CallerHeaders("absent", <<>>, "")

\* the key pay itself writes (line 203)
AuthorizationKey ==
    <<"A", "u", "t", "h", "o", "r", "i", "z", "a", "t", "i", "o", "n">>

\* the runtime matches header names without regard to letter case
IsAuthorizationName(key) ==
    /\ Len(key) = Len(AuthorizationKey)
    /\ \A i \in 1..Len(key) : Lower(key[i]) = Lower(AuthorizationKey[i])

\* the Authorization values of the initial request: { 'Content-Type',
\* ...options.headers } (lines 152-155)
InitialAuthorization(headers) ==
    IF headers.shape = "object" /\ IsAuthorizationName(headers.key)
    THEN Some(headers.value)
    ELSE None

MaxAmounts == {Usdc(30000), Usdc(PRICE_USDC), Usdc(PRICE_USDC) - OffGrid}
Balances == {0, 100000}
CallerAuths ==
    {NoHeaders,
     CallerHeaders("object", AuthorizationKey, CALLER_TOKEN),
     CallerHeaders("object", [i \in 1..Len(AuthorizationKey)
                                |-> Lower(AuthorizationKey[i])], CALLER_TOKEN),
     CallerHeaders("object", [AuthorizationKey EXCEPT ![Len(AuthorizationKey)] = "N"],
                   CALLER_TOKEN),
     CallerHeaders("object", <<"X", "-", "T", "r", "a", "c", "e">>, CALLER_TOKEN),
     CallerHeaders("Headers", AuthorizationKey, CALLER_TOKEN),
     CallerHeaders("array", AuthorizationKey, CALLER_TOKEN)}
InitialStatuses == {200, 402, 500}
PaidStatuses == {200, 402, 500}

NewPay(maxAmount, headers, balance) ==
    [pc |-> "start", maxAmount |-> maxAmount, headers |-> headers,
     balance |-> balance, initialStatus |-> None, requirement |-> None,
     signerCalls |-> 0,
     transfers |-> <<>>, requests |-> <<>>, txSignature |-> None,
     paidStatus |-> None, result |-> None]

Finish(p, result) == [p EXCEPT !.pc = "done", !.result = Some(result)]

\* line 150: the initial fetch is issued with the caller's headers
SendInitial ==
    /\ pay.pc = "start"
    /\ pay' = [pay EXCEPT !.pc = "initial",
                          !.requests = Append(@,
                               [authorization |-> InitialAuthorization(pay.headers)])]
    /\ UNCHANGED <<serverVars, txVars>>

\* the initial fetch rejects (no response was received)
InitialFails ==
    /\ pay.pc = "initial"
    /\ pay' = Finish(pay, Caught("fetch failed"))
    /\ UNCHANGED <<serverVars, txVars>>

\* line 150: the initial fetch resolves with the head of the response; its
\* status is known, its body is still to be read (line 160 or 170)
InitialResponse(status) ==
    /\ pay.pc = "initial"
    /\ pay' = [pay EXCEPT !.pc = "initialBody", !.initialStatus = Some(status)]
    /\ UNCHANGED <<serverVars, txVars>>

\* mutant: any status that is not a success is taken as a payment demand
MutAfterInitialPaysOnAnyFailure(p, bodyOk, descriptor) ==
    LET status == Val(p.initialStatus)
    IN
    IF ~bodyOk THEN Finish(p, Caught("invalid response body"))
    ELSE IF IsOk(status)
    THEN Finish(p, PayResult(TRUE, status, "", None))
    ELSE LET requirements == parsePaymentRequirements(descriptor)
             q == [p EXCEPT !.requirement = Some(requirements)]
         IN  IF ExceedsBudget(requirements.amount, p.maxAmount)
             THEN Finish(q, PayResult(FALSE, 402, ErrExceeds, None))
             ELSE IF ~IsSome(requirements.receiver)
             THEN Finish([q EXCEPT !.signerCalls = @ + 1],
                         Caught("Invalid public key input"))
             ELSE [q EXCEPT !.signerCalls = @ + 1, !.pc = "balance"]

\* lines 159-192, from the settled read of the body up to the first await of
\* sendUSDCPayment that leaves the process: new PublicKey(receiver) throws
\* for a missing receiver.  bodyOk is whether reading the body
\* (parseResponse at line 160, initialResponse.json() at line 170) succeeds.
AfterInitial(p, bodyOk, descriptor) ==
    LET status == Val(p.initialStatus)
    IN
    IF ~bodyOk THEN Finish(p, Caught("invalid response body"))
    ELSE IF status # 402
    THEN Finish(p, PayResult(IsOk(status), status,
                             IF IsOk(status) THEN "" ELSE ErrHttp, None))
    ELSE LET requirements == parsePaymentRequirements(descriptor)
             q == [p EXCEPT !.requirement = Some(requirements)]
         IN  IF ExceedsBudget(requirements.amount, p.maxAmount)
             THEN Finish(q, PayResult(FALSE, 402, ErrExceeds, None))
             ELSE IF ~IsSome(requirements.receiver)
             THEN Finish([q EXCEPT !.signerCalls = @ + 1],
                         Caught("Invalid public key input"))
             ELSE [q EXCEPT !.signerCalls = @ + 1, !.pc = "balance"]

\* the read of the body of the initial response settles
InitialBody(bodyOk, descriptor) ==
    /\ pay.pc = "initialBody"
    /\ pay' = AfterInitial(pay, bodyOk, descriptor)
    /\ UNCHANGED <<serverVars, txVars>>

\* getAccount rejects: the sender has no token account, or the RPC failed
BalanceFails ==
    /\ pay.pc = "balance"
    /\ pay' = Finish(pay, Caught("could not read the token account"))
    /\ UNCHANGED <<serverVars, txVars>>

\* mutant: the transfer is submitted whatever the balance
MutAfterBalanceNoCheck(p) ==
    LET amount == Val(p.requirement).amount
    IN  IF ~IsNumber(amount)
        THEN Finish(p, Caught("The number NaN cannot be converted to a BigInt"))
        ELSE [p EXCEPT !.pc = "transfer",
                       !.transfers = Append(@,
                            [receiver |-> Val(Val(p.requirement).receiver),
                             amount |-> AmountRaw(Val(amount))])]

\* lines 258-285: the balance check, then the transfer is built and submitted
AfterBalance(p) ==
    LET amount == Val(p.requirement).amount
    IN  IF ~IsNumber(amount)
        THEN Finish(p, Caught("The number NaN cannot be converted to a BigInt"))
        ELSE IF p.balance < AmountRaw(Val(amount))
        THEN Finish(p, Caught(ErrInsufficient))
        ELSE [p EXCEPT !.pc = "transfer",
                       !.transfers = Append(@,
                            [receiver |-> Val(Val(p.requirement).receiver),
                             amount |-> AmountRaw(Val(amount))])]

BalanceAnswer ==
    /\ pay.pc = "balance"
    /\ pay' = AfterBalance(pay)
    /\ UNCHANGED <<serverVars, txVars>>

\* sendAndConfirmTransaction rejects: the transfer failed, or its
\* confirmation timed out
TransferFails ==
    /\ pay.pc = "transfer"
    /\ pay' = Finish(pay, Caught("transaction was not confirmed"))
    /\ UNCHANGED <<serverVars, txVars>>

\* mutant: the retry carries the caller's headers only
MutRetryAuthorizationCallerOnly(headers, txSignature) ==
    InitialAuthorization(headers)

\* the Authorization values the retry carries, in the order the runtime
\* joins them with ", ": { 'Content-Type', Authorization: txSignature,
\* ...options.headers } (lines 201-205).  The spread copies the own
\* properties of a plain object: a key spelled Authorization replaces the
\* signature, a key in another letter case is a second property, whose
\* value the runtime appends to the signature.
RetryAuthorization(headers, txSignature) ==
    IF headers.shape # "object" \/ ~IsAuthorizationName(headers.key)
    THEN <<txSignature>>
    ELSE IF headers.key = AuthorizationKey THEN <<headers.value>>
    ELSE <<txSignature, headers.value>>

\* lines 287, 194-206: the signature is returned and the retry is issued;
\* the ledger confirms no transfer of a negative amount (the instruction
\* carries an unsigned 64-bit amount)
TransferConfirmed ==
    /\ pay.pc = "transfer"
    /\ pay.transfers[Len(pay.transfers)].amount >= 0
    /\ pay' = [pay EXCEPT !.pc = "paid",
                          !.txSignature = Some(CLIENT_SIGNATURE),
                          !.requests = Append(@,
                               [authorization |->
                                   RetryAuthorization(pay.headers,
                                                      CLIENT_SIGNATURE)])]
    /\ UNCHANGED <<serverVars, txVars>>

\* the paid fetch rejects
PaidFails ==
    /\ pay.pc = "paid"
    /\ pay' = Finish(pay, Caught("fetch failed"))
    /\ UNCHANGED <<serverVars, txVars>>

\* line 199: the paid fetch resolves with the head of the response; its body
\* is still to be read (line 208)
PaidResponse(status) ==
    /\ pay.pc = "paid"
    /\ pay' = [pay EXCEPT !.pc = "paidBody", !.paidStatus = Some(status)]
    /\ UNCHANGED <<serverVars, txVars>>

\* mutant: a 402 answer to the paid retry makes the client pay again
MutAfterPaidPayAgain(p, bodyOk) ==
    LET status == Val(p.paidStatus)
    IN  IF status = 402 /\ Len(p.transfers) < 3
        THEN [p EXCEPT !.pc = "balance", !.signerCalls = @ + 1]
        ELSE Finish(p, PayResult(IsOk(status), status, "", p.txSignature))

\* lines 208-220, from the settled parseResponse, and the catch block when
\* reading the body throws
AfterPaid(p, bodyOk) ==
    LET status == Val(p.paidStatus)
    IN  IF ~bodyOk THEN Finish(p, Caught("invalid response body"))
        ELSE Finish(p, PayResult(IsOk(status), status,
                                 IF IsOk(status) THEN "" ELSE ErrHttp,
                                 p.txSignature))

\* the read of the body of the paid response settles
PaidBody(bodyOk) ==
    /\ pay.pc = "paidBody"
    /\ pay' = AfterPaid(pay, bodyOk)
    /\ UNCHANGED <<serverVars, txVars>>

PayInit ==
    /\ usedSignatures = <<>>
    /\ network = "devnet"
    /\ now = BlockTime0
    /\ confirmed = {}
    /\ calls = [i \in CallIds |-> IdleCall]
    /\ TxIdle
    /\ pay \in {NewPay(m, a, b) : m \in MaxAmounts, a \in CallerAuths, b \in Balances}

PayNext ==
    \/ SendInitial
    \/ InitialFails
    \/ \E st \in InitialStatuses : InitialResponse(st)
    \/ \E ok \in BOOLEAN, d \in Descriptors : InitialBody(ok, d)
    \/ BalanceFails
    \/ BalanceAnswer
    \/ TransferFails
    \/ TransferConfirmed
    \/ PaidFails
    \/ \E st \in PaidStatuses : PaidResponse(st)
    \/ \E ok \in BOOLEAN : PaidBody(ok)

PaySpec == PayInit /\ [][PayNext]_vars

(***************************************************************************)
(* E2ESpec: the test job.  It fetches the gated URL without payment, then  *)
(* calls wallet.pay(url, maxAmount); the gate serves the three requests in *)
(* the slots 1, 2 and 3, the ledger confirms the transfer the client       *)
(* submits, and the server's clock stays inside the freshness window of    *)
(* that transfer.  No request, response or ledger query is lost.           *)
(***************************************************************************)
\* the signature under which the ledger records a transfer of the client
LedgerSignature(transfer) ==
    CASE transfer = [receiver |-> RECEIVER_WALLET, amount |-> PRICE_USDC]
            -> SigGood
      [] transfer = [receiver |-> RECEIVER_WALLET, amount |-> 30000]
            -> SigUnderpaid
      [] transfer = [receiver |-> OTHER_OWNER, amount |-> PRICE_USDC]
            -> SigWrongRcv

\* the Authorization header of a request of the client as the gate reads it:
\* txSignature is the signature of the transfer; a caller's own token is a
\* bearer credential shorter than a signature
WireHeader(authorization) ==
    LET wire(value) ==
            IF value = CLIENT_SIGNATURE
            THEN LedgerSignature(pay.transfers[Len(pay.transfers)])
            ELSE Bearer(ShortProof)
    IN  IF authorization = <<>> THEN None
        ELSE IF Len(authorization) = 1 THEN Some(wire(authorization[1]))
        ELSE Some(wire(authorization[1]) \o <<",", " ">> \o wire(authorization[2]))

\* the JSON body of a response of the gate as the client reads it:
\* paymentInfo.payment || paymentInfo
\* a body without the key payment is read itself, and no body of the gate
\* has one of the keys of a requirement at its top level
WireDescriptor(response) ==
    IF IsSome(response.payment)
    THEN Descriptor(Some(Val(response.payment).receiver), None, None, None,
                    Some(NumField(Usdc(Val(response.payment).amount))), None)
    ELSE Descriptor(None, None, None, None, None, None)

\* the server's clock when the transfer's block time is BlockTime0
E2ETimes ==
    {BlockTime0 - FUTURE_SKEW_SECONDS, BlockTime0,
     BlockTime0 + MAX_TX_AGE_SECONDS}

\* test-job.ts line 142: fetch(API_URL), the URL naming a wallet or not
E2EFetch(w) ==
    /\ pay.pc = "start"
    /\ Request(1, "GET", None, w)

\* test-job.ts line 159: wallet.pay(API_URL, PRICE) once the fetch returned
E2ESendInitial ==
    /\ calls[1].pc = "done"
    /\ SendInitial

\* the k-th request of pay reaches the gate
E2EDeliver(k) ==
    /\ k \in 1..Len(pay.requests)
    /\ Request(k + 1, "GET", WireHeader(pay.requests[k].authorization),
               calls[1].wallet)

\* the head of the response to the initial request reaches pay
E2EInitialResponse ==
    /\ calls[2].pc = "done"
    /\ InitialResponse(calls[2].response.status)

\* the ledger confirms the transfer that sendAndConfirmTransaction submitted
E2ELedgerConfirms ==
    /\ pay.pc = "transfer"
    /\ Confirm(LedgerSignature(pay.transfers[Len(pay.transfers)]))

\* sendAndConfirmTransaction resolves
E2ETransferConfirmed ==
    /\ pay.pc = "transfer"
    /\ LedgerSignature(pay.transfers[Len(pay.transfers)]) \in confirmed
    /\ TransferConfirmed

\* the head of the response to the paid retry reaches pay
E2EPaidResponse ==
    /\ calls[3].pc = "done"
    /\ PaidResponse(calls[3].response.status)

E2EInit ==
    /\ usedSignatures = <<>>
    /\ network = "devnet"
    /\ now \in E2ETimes
    /\ confirmed = {}
    /\ calls = [i \in CallIds |-> IdleCall]
    /\ TxIdle
    /\ pay \in {NewPay(m, NoHeaders, b) : m \in MaxAmounts, b \in Balances}

\* the ledger answers the query of a suspended call
E2ELedgerAnswer == \E i \in CallIds : LedgerAnswer(i, "ok")

\* the handler of a call whose verification returned resumes
E2EHandlerResumes == \E i \in CallIds : HandlerResumes(i)

E2EProgress ==
    \/ \E w \in WalletParams : E2EFetch(w)
    \/ E2ESendInitial
    \/ \E k \in {1, 2} : E2EDeliver(k)
    \/ E2EInitialResponse
    \/ InitialBody(TRUE, WireDescriptor(calls[2].response))
    \/ BalanceAnswer
    \/ E2ELedgerConfirms
    \/ E2ETransferConfirmed
    \/ E2EPaidResponse
    \/ PaidBody(TRUE)

E2ENext ==
    \/ E2EProgress
    \/ E2ELedgerAnswer
    \/ E2EHandlerResumes
    \/ \E t \in E2ETimes : Tick(t)

\* every request, response head, response body and ledger query is
\* eventually delivered, and a handler whose await settled resumes.  The second and third conjunct are
\* weak fairness of E2ELedgerAnswer and of E2EHandlerResumes with the
\* enabling condition written out: the step is possible exactly while some
\* call is suspended in its ledger query, or waits to resume.
E2EFairness ==
    /\ WF_vars(E2EProgress)
    /\ <>[](\E i \in CallIds : calls[i].pc = "awaitLedger")
          => []<><<E2ELedgerAnswer>>_vars
    /\ <>[](\E i \in CallIds : calls[i].pc = "verified")
          => []<><<E2EHandlerResumes>>_vars

E2ESpec == E2EInit /\ [][E2ENext]_vars /\ E2EFairness

(***************************************************************************)
(* Claims                                                                  *)
(***************************************************************************)
\* the call has ended: a request has been answered, a direct call returned
Done(i)      == calls[i].pc = "done"
\* verify has returned to call i
Verified(i)  == IsSome(calls[i].verification)
ValidCall(i) == Verified(i) /\ Val(calls[i].verification).valid
\* request i has been answered after verify returned
Answered(i)  == Done(i) /\ Verified(i)
ErrorOf(i)   == Val(calls[i].verification).error

\* the balance changes of `owner` in `mint` that the ledger recorded for tx:
\* post amount minus the pre amount of the same account (0 when it has none)
LedgerDeltas(tx, mint, owner) ==
    {tx.post[k].amount
        - (IF \E j \in 1..Len(tx.pre) : tx.pre[j].accountIndex = tx.post[k].accountIndex
           THEN tx.pre[CHOOSE j \in 1..Len(tx.pre) :
                          tx.pre[j].accountIndex = tx.post[k].accountIndex].amount
           ELSE 0) :
     k \in {n \in 1..Len(tx.post) :
               tx.post[n].mint = mint /\ tx.post[n].owner = Some(owner)}}

\* C1 (GateSpec).  Gate soundness: a response carries the gated payload only
\* with status 200, and every 200 response answers a signature whose
\* transaction the ledger returns, that recorded no on-chain error and that
\* credited the configured receiver, in the configured mint, with a positive
\* balance delta within the tolerance of the configured price.
C1_GateSoundness ==
    \A i \in CallIds :
        /\ IsSome(calls[i].response.payload) => calls[i].response.status = 200
        /\ calls[i].response.status = 200 =>
              /\ IsSome(calls[i].authHeader)
              /\ IsSome(calls[i].response.payload)
              /\ network \in DOMAIN USDC_MINTS
              /\ SignatureOf(calls[i]) \in confirmed
              /\ ~TxOf(SignatureOf(calls[i])).err
              /\ \E d \in LedgerDeltas(TxOf(SignatureOf(calls[i])),
                                       USDC_MINTS[network], RECEIVER_WALLET) :
                    d > 0 /\ Abs(d - PRICE_USDC) <= AMOUNT_TOLERANCE

\* a request with a Bearer-prefixed proof of a good payment was granted
C1_Witness ==
    \E i \in CallIds :
        /\ calls[i].response.status = 200
        /\ calls[i].authHeader = Some(Bearer(SigGood))
        /\ IsSome(calls[i].response.payload)

\* C2 (Spec).  Two verify calls for the same signature that ran concurrently
\* (the later one started while the earlier one was suspended in the ledger
\* query) do not both return valid:true.
C2_ConcurrentExactlyOne ==
    \A i, j \in CallIds :
        (/\ i \in calls[j].overlaps
         /\ Done(i) /\ Done(j)
         /\ SignatureOf(calls[i]) = SignatureOf(calls[j]))
        => ~(ValidCall(i) /\ ValidCall(j))

\* C3 (Spec).  A verify call for s that starts after an earlier call for s
\* has returned valid:true is rejected as a replay.
C3_SequentialReplay ==
    \A i, j \in CallIds :
        (/\ i < j
         /\ calls[j].pc # "idle"
         /\ i \notin calls[j].overlaps
         /\ ValidCall(i)
         /\ SignatureOf(calls[i]) = SignatureOf(calls[j]))
        => /\ Verified(j)
           /\ ~Val(calls[j].verification).valid
           /\ ErrorOf(j) = Some(ErrReplay)

\* the same signature was verified twice in sequence: valid, then replay
C3_Witness ==
    \E i, j \in CallIds :
        /\ i < j
        /\ i \notin calls[j].overlaps
        /\ ValidCall(i)
        /\ Verified(j)
        /\ SignatureOf(calls[i]) = SignatureOf(calls[j])
        /\ ErrorOf(j) = Some(ErrReplay)

\* call i returns from verify in this step
Returns(i) == calls[i].verification = None /\ calls'[i].verification # None

\* C4 (GateSpec).  verify changes the replay set only on its success path:
\* a call that returns valid:false leaves it as it was, and whenever the set
\* changes, a call returning valid:true has appended its own signature, which
\* was not in the set.
C4_ReplaySetOnlyOnSuccess ==
    [][ /\ \A i \in CallIds :
              (Returns(i) /\ ~Val(calls'[i].verification).valid)
              => usedSignatures' = usedSignatures
        /\ usedSignatures' # usedSignatures
           => \E i \in CallIds :
                 /\ Returns(i)
                 /\ Val(calls'[i].verification).valid
                 /\ ~\E k \in 1..Len(usedSignatures) :
                        usedSignatures[k] = SignatureOf(calls[i])
                 /\ usedSignatures' = Append(usedSignatures, SignatureOf(calls[i]))
      ]_vars

\* a call was rejected for an amount mismatch after another signature had
\* been accepted: the set holds the accepted signature only
C4_Witness ==
    \E i \in CallIds :
        /\ Verified(i)
        /\ ErrorOf(i) = Some(ErrAmountMismatch)
        /\ usedSignatures = <<SigGood>>

\* the checks verify makes before the extraction let tx through
ReachesExtraction(tx) ==
    /\ ~tx.err
    /\ ~(IsSome(tx.blockTime) /\ now - Val(tx.blockTime) > 300)
    /\ ~(IsSome(tx.blockTime) /\ now - Val(tx.blockTime) < -60)

ReceiverDeltas(tx) == LedgerDeltas(tx, USDC_MINTS["devnet"], RECEIVER_WALLET)
OtherDeltas(tx)    == LedgerDeltas(tx, USDC_MINTS["devnet"], PAYER)

\* C8 (TxSpec).  Receiver discrimination: when no token account of the
\* expected mint owned by the expected receiver has a positive balance delta,
\* the extractor reports not-found and verify does not validate; it answers
\* with the transfer-not-found error whenever the earlier checks pass.  This
\* includes the transactions that credit another owner in the same mint.
C8_ReceiverDiscrimination ==
    IsSome(txOut) =>
        ((\A d \in ReceiverDeltas(Val(txIn)) : d <= 0)
         => /\ ~Val(xferOut).found
            /\ ~Val(txOut).valid
            /\ ReachesExtraction(Val(txIn))
               => Val(txOut).error = Some(ErrNoTransfer))

\* another owner was credited in the expected mint, the receiver was not,
\* and verify answered transfer-not-found
C8_Witness ==
    /\ IsSome(txOut)
    /\ \E d \in OtherDeltas(Val(txIn)) : d > 0
    /\ \A d \in ReceiverDeltas(Val(txIn)) : d <= 0
    /\ Val(txOut).error = Some(ErrNoTransfer)

\* C9 (TxSpec).  Only positive deltas qualify: a reported transfer has a
\* positive amount that is the balance delta of an account of the receiver
\* in the expected mint, and a transaction in which the receiver's accounts
\* only decreased or stayed unchanged is neither reported as found nor
\* validated.
C9_OnlyPositiveDeltas ==
    IsSome(txOut) =>
        /\ Val(xferOut).found
           => /\ Val(Val(xferOut).amount) > 0
              /\ Val(Val(xferOut).amount) \in ReceiverDeltas(Val(txIn))
        /\ (/\ ReceiverDeltas(Val(txIn)) # {}
            /\ \A d \in ReceiverDeltas(Val(txIn)) : d <= 0)
           => ~Val(xferOut).found /\ ~Val(txOut).valid

\* the receiver's balance decreased by the price and nothing was found
C9_Witness ==
    /\ IsSome(txOut)
    /\ -50000 \in ReceiverDeltas(Val(txIn))
    /\ \A d \in ReceiverDeltas(Val(txIn)) : d < 0
    /\ ~Val(xferOut).found
    /\ ~Val(txOut).valid

\* C10 (AmountSpec).  Amount tolerance boundary: with raw amounts as
\* integers and expectedRaw = expectedAmount * 10^6, verify passes the amount
\* check iff |extractedRaw - expectedRaw| <= 1000, and a rejection is the
\* amount-mismatch error reporting the actual amount.
C10_ToleranceAnyExpected ==
    IsSome(txOut) =>
        \A d \in ReceiverDeltas(Val(txIn)) :
            d > 0
            => /\ Val(txOut).valid <=> Abs(d - txExpected) <= 1000
               /\ Val(txOut).amount = Some(d)
               /\ ~Val(txOut).valid
                  => Val(txOut).error = Some(ErrAmountMismatch)

\* for the configured price (TxSpec): for a transaction that passes the earlier
\* checks and credits the receiver by d > 0 smallest units, verify returns
\* valid:true iff 49000 <= d <= 51000 (|d - 50000| <= 1000), and otherwise
\* returns the amount-mismatch error reporting d as the actual amount.
C10_AmountTolerance ==
    IsSome(txOut) =>
        \A d \in ReceiverDeltas(Val(txIn)) :
            (ReceiverDeltas(Val(txIn)) = {d} /\ d > 0
               /\ ReachesExtraction(Val(txIn)))
            => /\ Val(txOut).valid <=> (d >= 49000 /\ d <= 51000)
               /\ Val(txOut).valid => Val(txOut).amount = Some(d)
               /\ ~Val(txOut).valid
                  => /\ Val(txOut).error = Some(ErrAmountMismatch)
                     /\ Val(txOut).amount = Some(d)

\* 48,999 was rejected as an amount mismatch that reports 48,999
C10_Witness ==
    /\ IsSome(txOut)
    /\ ReceiverDeltas(Val(txIn)) = {48999}
    /\ Val(txOut).error = Some(ErrAmountMismatch)
    /\ Val(txOut).amount = Some(48999)

\* 49,000 (the lower boundary) was accepted
C10_WitnessAccepted ==
    /\ IsSome(txOut)
    /\ ReceiverDeltas(Val(txIn)) = {49000}
    /\ Val(txOut).valid

\* the result is neither of the two freshness rejections
PassesFreshness(result) ==
    result.error \notin {Some(ErrTooOld), Some(ErrFromFuture)}

\* the transaction the ledger returned succeeded on chain and reports a block time
TimedTx == IsSome(txOut) /\ ~Val(txIn).err /\ IsSome(Val(txIn).blockTime)

\* C11 (TxSpec).  Freshness boundary: whenever the ledger reports a block
\* time, verify passes the freshness check iff -60 <= now - blockTime <= 300;
\* an age above 300 is rejected as too old and an age below -60 as from the
\* future, both reporting the block time; inside the window (300 seconds
\* old, 30 seconds ahead) the payment of the price is valid and carries the
\* block time.
C11_FreshnessBoundary ==
    TimedTx =>
        LET blockTime == Val(Val(txIn).blockTime)
            age == now - blockTime
        IN  /\ PassesFreshness(Val(txOut)) <=> (age >= -60 /\ age <= 300)
            /\ age > 300 => /\ Val(txOut).error = Some(ErrTooOld)
                            /\ Val(txOut).timestamp = Some(blockTime)
            /\ age < -60 => /\ Val(txOut).error = Some(ErrFromFuture)
                            /\ Val(txOut).timestamp = Some(blockTime)
            /\ (age >= -60 /\ age <= 300 /\ ReceiverDeltas(Val(txIn)) = {50000})
               => /\ Val(txOut).valid
                  /\ Val(txOut).timestamp = Some(blockTime)

\* a payment confirmed 301 seconds ago was rejected as too old
C11_Witness ==
    /\ TimedTx
    /\ now - Val(Val(txIn).blockTime) = 301
    /\ Val(txOut).error = Some(ErrTooOld)

\* a payment confirmed exactly 300 seconds ago was accepted
C11_WitnessBoundary ==
    /\ TimedTx
    /\ now - Val(Val(txIn).blockTime) = 300
    /\ Val(txOut).valid

\* a payment dated 61 seconds ahead of the server clock was rejected
C11_WitnessFuture ==
    /\ TimedTx
    /\ now - Val(Val(txIn).blockTime) = -61
    /\ Val(txOut).error = Some(ErrFromFuture)

\* request i carries a proof credential: a non-empty Authorization value
Carries(i) ==
    /\ calls[i].pc # "idle"
    /\ IsSome(calls[i].authHeader)
    /\ Val(calls[i].authHeader) # <<>>

\* ... whose proof is shorter than 80 characters once normalised
Malformed(i) == Carries(i) /\ Len(SignatureOf(calls[i])) < 80

\* C12 (GateSpec).  Every request for which verify returned valid:true is
\* answered 200 with the gated payload, whose subject is the verified sender
\* when the caller named no wallet.
C12_ValidIsGranted ==
    \A i \in CallIds :
        (calls[i].pc \in {"done", "threw"} /\ ValidCall(i))
        => /\ Done(i)
           /\ calls[i].response.status = 200
           /\ IsSome(calls[i].response.payload)
           /\ calls[i].wallet = None
              => Some(Val(calls[i].response.payload).walletAddress)
                    = Val(calls[i].verification).sender

\* a POST whose payment was accepted and recorded ended without a response:
\* its body names a wallet that is no string
ValidCallThrew ==
    \E i \in CallIds :
        /\ calls[i].pc = "threw"
        /\ calls[i].method = "POST"
        /\ ValidCall(i)
        /\ calls[i].wallet = Some(JsonValue("number", "123"))
        /\ calls[i].response = NoResponse
        /\ \E k \in 1..Len(usedSignatures) :
              usedSignatures[k] = SignatureOf(calls[i])

\* C13 (GateSpec).  A request whose credential is malformed is answered 400
\* (not 402) without the payload, in the step in which it arrives: verify
\* has not been called, no ledger query has been issued, and the replay set
\* is as it was before the request.
C13_MalformedDenied ==
    [][ \A i \in CallIds :
            Malformed(i)'
            => /\ calls'[i].pc = "done"
               /\ calls'[i].response.status = 400
               /\ calls'[i].response.status # 402
               /\ calls'[i].response.payload = None
               /\ calls'[i].verification = None
               /\ calls'[i].ledger = None
               /\ calls[i].pc = "idle" => usedSignatures' = usedSignatures
      ]_vars

\* a Bearer-prefixed proof of 79 characters was answered 400 after another
\* signature had been accepted: the set still holds that signature only
C13_Witness ==
    \E i \in CallIds :
        /\ calls[i].authHeader = Some(Bearer(ShortProof))
        /\ calls[i].response.status = 400
        /\ usedSignatures = <<SigGood>>

\* C15 (GateSpec).  A request with no proof credential (the Authorization
\* header missing or empty) is answered 402 with the requirement descriptor
\* (receiver, amount 0.05, token USDC, network) in the step in which it
\* arrives: verify has not been called, no ledger query has been issued, and
\* the replay set is as it was before the request.
C15_NoCredentialPaymentRequired ==
    [][ \A i \in CallIds :
            (calls'[i].pc # "idle" /\ ~Carries(i)')
            => /\ calls'[i].pc = "done"
               /\ calls'[i].response.status = 402
               /\ IsSome(calls'[i].response.payment)
               /\ Val(calls'[i].response.payment).receiver = RECEIVER_WALLET
               /\ Val(calls'[i].response.payment).amount = 50000
               /\ Val(calls'[i].response.payment).token = "USDC"
               /\ Val(calls'[i].response.payment).network
                     \in {"Solana Devnet", "Solana Mainnet"}
               /\ calls'[i].response.payload = None
               /\ calls'[i].verification = None
               /\ calls'[i].ledger = None
               /\ calls[i].pc = "idle" => usedSignatures' = usedSignatures
      ]_vars

\* a request with an empty Authorization header was answered 402 after a
\* signature had been accepted: the set still holds that signature only
C15_Witness ==
    \E i \in CallIds :
        /\ calls[i].pc = "done"
        /\ calls[i].authHeader = Some(<<>>)
        /\ calls[i].response.status = 402
        /\ usedSignatures = <<SigGood>>

\* C16 (GateSpec).  Every request for which verify returned valid:false is
\* answered 402 with the engine's error as details and the required
\* receiver, amount, token and network, and without the gated payload.
C16_InvalidDenied ==
    \A i \in CallIds :
        (Answered(i) /\ ~Val(calls[i].verification).valid)
        => /\ calls[i].response.status = 402
           /\ IsSome(ErrorOf(i))
           /\ calls[i].response.details = ErrorOf(i)
           /\ calls[i].response.required
                 = Some([receiver |-> RECEIVER_WALLET, amount |-> 50000,
                         token |-> "USDC", network |-> network])
           /\ calls[i].response.payload = None

\* a POST with the proof of an underpayment was answered 402 with the
\* amount-mismatch error as details
C16_Witness ==
    \E i \in CallIds :
        /\ calls[i].method = "POST"
        /\ Answered(i)
        /\ calls[i].response.status = 402
        /\ calls[i].response.details = Some(ErrAmountMismatch)

\* C14 (VerifySpec).  verify itself rejects a malformed signature: a call
\* with an empty signature or one shorter than 80 characters has returned
\* valid:false in the step in which it was made, and no ledger query was
\* ever issued for it.
C14_EngineRejectsMalformed ==
    \A i \in CallIds :
        (/\ calls[i].method = "verify"
         /\ Len(Val(calls[i].authHeader)) < 80)
        => /\ Verified(i)
           /\ ~Val(calls[i].verification).valid
           /\ calls[i].ledger = None

\* C20 (VerifySpec).  Every verify call eventually returns: a call whose
\* ledger query never completes is ended by a timeout and returns the
\* verification-unavailable result (not transaction-not-found).
C20_HungCallReturns ==
    \A i \in CallIds :
        (calls[i].ledger = Some("hung"))
            ~> (/\ Verified(i)
                /\ ErrorOf(i) = Some(ErrVerification))

\* call j presents the signature of call i and started after i had returned
Sequential(i, j) ==
    /\ i < j
    /\ calls[j].pc # "idle"
    /\ i \notin calls[j].overlaps
    /\ SignatureOf(calls[i]) = SignatureOf(calls[j])

InReplaySet(sig) == \E k \in 1..Len(usedSignatures) : usedSignatures[k] = sig

\* some call returned valid:true for sig
Accepted(sig) == \E k \in CallIds : ValidCall(k) /\ SignatureOf(calls[k]) = sig

\* the ledger's transaction for sig pays the price to the receiver, in the
\* mint the server looks up for its network, and is, at the present instant,
\* inside the freshness window
PaysPriceFresh(sig) ==
    /\ ~TxOf(sig).err
    /\ IsSome(LookupMint(network))
    /\ LedgerDeltas(TxOf(sig), Val(LookupMint(network)), RECEIVER_WALLET) = {50000}
    /\ now - Val(TxOf(sig).blockTime) >= -60
    /\ now - Val(TxOf(sig).blockTime) <= 300

\* the ledger query of call j returned a transaction
Fetched(j) ==
    /\ Verified(j)
    /\ calls[j].ledger = Some("ok")
    /\ ErrorOf(j) # Some(ErrNotFound)

\* C17 (Spec).  TransactionNotFound is not permanent: a call that returned
\* transaction-not-found for s has not put s into the replay set (s is in
\* the set only if some call returned valid:true for it), a later call for s
\* is rejected as a replay only if some call was accepted for s, and a later
\* call for s whose ledger query returns the transaction, a payment of the
\* price that is still fresh, returns valid:true.
C17_NotFoundNotPermanent ==
    \A i \in CallIds :
        (Verified(i) /\ ErrorOf(i) = Some(ErrNotFound))
        => /\ InReplaySet(SignatureOf(calls[i])) => Accepted(SignatureOf(calls[i]))
           /\ \A j \in CallIds :
                 (Sequential(i, j) /\ Verified(j))
                 => /\ ErrorOf(j) = Some(ErrReplay)
                       => Accepted(SignatureOf(calls[i]))
                    /\ (Fetched(j) /\ PaysPriceFresh(SignatureOf(calls[j])))
                       => ValidCall(j)

\* a signature was answered transaction-not-found, then, once the node
\* returned the transaction, valid:true
C17_Witness ==
    \E i, j \in CallIds :
        /\ Sequential(i, j)
        /\ Verified(i)
        /\ ErrorOf(i) = Some(ErrNotFound)
        /\ ValidCall(j)

\* C18 as stated (Spec).  Idempotent rejection: after a call for s failed
\* with the amount-mismatch error, every later call for s returns the same
\* amount-mismatch result.
C18_SameResultEveryTime ==
    \A i, j \in CallIds :
        (/\ Verified(i)
         /\ ErrorOf(i) = Some(ErrAmountMismatch)
         /\ Sequential(i, j)
         /\ Verified(j))
        => /\ ErrorOf(j) = Some(ErrAmountMismatch)
           /\ Val(calls[j].verification) = Val(calls[i].verification)

\* C18 amended (Spec).  Idempotent rejection: after a call for s failed with the
\* amount-mismatch error, s is not in the replay set, no later call for s
\* is rejected as a replay, and every later call for s whose ledger query
\* returns the transaction while it is still fresh returns the same
\* amount-mismatch result.
C18_IdempotentRejection ==
    \A i, j \in CallIds :
        (/\ Verified(i)
         /\ ErrorOf(i) = Some(ErrAmountMismatch)
         /\ Sequential(i, j)
         /\ Verified(j))
        => /\ ~InReplaySet(SignatureOf(calls[i]))
           /\ ErrorOf(j) # Some(ErrReplay)
           /\ (/\ Fetched(j)
               /\ now - Val(TxOf(SignatureOf(calls[j])).blockTime) <= 300)
              => /\ ErrorOf(j) = Some(ErrAmountMismatch)
                 /\ Val(calls[j].verification) = Val(calls[i].verification)

\* the same underpayment was presented twice and rejected twice for its amount
C18_Witness ==
    \E i, j \in CallIds :
        /\ Sequential(i, j)
        /\ Verified(i) /\ Verified(j)
        /\ ErrorOf(i) = Some(ErrAmountMismatch)
        /\ ErrorOf(j) = Some(ErrAmountMismatch)

\* the errors of the results that judge the payment or find no transaction
PaymentErrors ==
    {ErrReplay, ErrUnknownNetwork, ErrNotFound, ErrTxFailed, ErrTooOld,
     ErrFromFuture, ErrNoTransfer, ErrAmountMismatch}

\* C19 (Spec).  A fault of the ledger query makes verify return valid:false
\* with the verification-failed error, which is none of the errors of a
\* missing or invalid payment; the call has not put its signature into the
\* replay set, a later call for the signature is rejected as a replay only
\* if some call was accepted for it, and a later call whose ledger query
\* returns the transaction, a payment of the price that is still fresh,
\* returns valid:true.
C19_LedgerFault ==
    \A i \in CallIds :
        calls[i].ledger = Some("fault")
        => /\ Verified(i)
           /\ ~Val(calls[i].verification).valid
           /\ ErrorOf(i) = Some(ErrVerification)
           /\ Val(ErrorOf(i)) \notin PaymentErrors
           /\ InReplaySet(SignatureOf(calls[i])) => Accepted(SignatureOf(calls[i]))
           /\ \A j \in CallIds :
                 (Sequential(i, j) /\ Verified(j))
                 => /\ ErrorOf(j) = Some(ErrReplay)
                       => Accepted(SignatureOf(calls[i]))
                    /\ (Fetched(j) /\ PaysPriceFresh(SignatureOf(calls[j])))
                       => ValidCall(j)

\* the ledger query of a call faulted, and a later call for the same
\* signature returned valid:true
C19_Witness ==
    \E i, j \in CallIds :
        /\ Sequential(i, j)
        /\ calls[i].ledger = Some("fault")
        /\ ValidCall(j)
        /\ usedSignatures = <<SignatureOf(calls[j])>>

\* the errors a payer's input or payment can cause
PayerErrors == (PaymentErrors \ {ErrUnknownNetwork}) \cup {ErrVerification}

\* C21 (GateSpec).  On a server whose network has no token mint, every call
\* of verify returns valid:false with the unknown-network error, which is
\* none of the errors a payer can cause; no ledger query is issued for it
\* and the replay set stays as it was created.
C21_UnknownNetwork ==
    network \notin {"devnet", "mainnet-beta"}
    => /\ usedSignatures = <<>>
       /\ \A i \in CallIds :
             (Carries(i) /\ ~Malformed(i))
             => /\ Verified(i)
                /\ ~Val(calls[i].verification).valid
                /\ ErrorOf(i) = Some("Unknown network")
                /\ Val(ErrorOf(i)) \notin PayerErrors
                /\ calls[i].ledger = None

\* on a server configured for testnet the proof of a good payment was
\* answered with the unknown-network error
C21_Witness ==
    \E i \in CallIds :
        /\ network = "testnet"
        /\ calls[i].authHeader = Some(SigGood)
        /\ Verified(i)
        /\ ErrorOf(i) = Some(ErrUnknownNetwork)

PayDone == pay.pc = "done"

\* the requests of this pay call that carry the transfer's signature as proof
PaidRequests ==
    {k \in 1..Len(pay.requests) :
        pay.requests[k].authorization = Some(CLIENT_SIGNATURE)}

\* C28 (GateSpec).  The replay check precedes any ledger access: a verify
\* call for a signature that is in the replay set when the call starts
\* returns the replay rejection in that same step, without a ledger query
\* having been issued and with the replay set as it was.
C28_ReplayBeforeLedger ==
    [][ \A i \in CallIds :
            (/\ calls[i].pc = "idle"
             /\ Carries(i)'
             /\ ~Malformed(i)'
             /\ InReplaySet(SignatureOf(calls'[i])))
            => /\ calls'[i].pc = "verified"
               /\ IsSome(calls'[i].verification)
               /\ ~Val(calls'[i].verification).valid
               /\ Val(calls'[i].verification).error
                    = Some("Transaction signature already used (replay attack prevented)")
               /\ calls'[i].ledger = None
               /\ usedSignatures' = usedSignatures
      ]_vars

\* a second request for an accepted signature was rejected as a replay and no
\* ledger query was made for it
C28_Witness ==
    \E i \in CallIds :
        /\ usedSignatures = <<SigGood>>
        /\ calls[i].authHeader = Some(SigGood)
        /\ Verified(i)
        /\ ErrorOf(i) = Some(ErrReplay)
        /\ calls[i].ledger = None

\* C27 (VerifySpec).  verify never throws or rejects on payer-supplied
\* input: for every signature string, a call that is not still suspended in
\* its ledger query has completed with a typed result, valid:true without
\* an error or valid:false carrying an error, whether the query returned a
\* transaction, returned none or failed.
C27_TypedResult ==
    \A i \in CallIds :
        calls[i].method = "verify"
        => \/ /\ calls[i].pc = "awaitLedger"
              /\ calls[i].ledger \in {Some("pending"), Some("hung")}
              /\ calls[i].verification = None
           \/ /\ calls[i].pc = "done"
              /\ calls[i].ledger \in {None, Some("ok"), Some("fault")}
              /\ IsSome(calls[i].verification)
              /\ \/ /\ Val(calls[i].verification).valid
                    /\ Val(calls[i].verification).error = None
                 \/ /\ ~Val(calls[i].verification).valid
                    /\ IsSome(Val(calls[i].verification).error)

\* the ledger query of a call with an empty signature failed and the call
\* returned valid:false with an error, while another call returned valid:true
C27_Witness ==
    \E i, j \in CallIds :
        /\ calls[i].method = "verify"
        /\ calls[i].authHeader = Some(<<>>)
        /\ calls[i].ledger = Some("fault")
        /\ Verified(i)
        /\ ~Val(calls[i].verification).valid
        /\ IsSome(ErrorOf(i))
        /\ calls[j].method = "verify"
        /\ ValidCall(j)

\* C30 (EvictSpec).  Eviction policy: when the insertion of an accepted
\* signature makes the replay set exceed 10,000 entries, exactly the 5,000
\* oldest-inserted signatures are removed and every later-inserted one,
\* the one just inserted included, remains in order; when the size does not
\* exceed 10,000 the signature is appended and nothing is removed.  A call
\* that is not accepted leaves the set as it was.
C30_EvictionPolicy ==
    [][ \A i \in CallIds :
            Returns(i)
            => IF ~Val(calls'[i].verification).valid
               THEN usedSignatures' = usedSignatures
               ELSE LET inserted == Append(usedSignatures, Val(calls'[i].authHeader))
                    IN  IF Len(inserted) > 10000
                        THEN /\ Len(usedSignatures') = Len(inserted) - 5000
                             /\ usedSignatures'
                                  = [k \in 1..(Len(inserted) - 5000) |-> inserted[k + 5000]]
                             /\ usedSignatures'[Len(usedSignatures')]
                                  = Val(calls'[i].authHeader)
                        ELSE usedSignatures' = inserted
      ]_vars

\* the set held 10,000 signatures, a payment was accepted, and the set now
\* holds the 5,000 newest of them followed by the signature of that payment
C30_Witness ==
    /\ Len(usedSignatures) = 5001
    /\ usedSignatures[1] = Filler(5001)
    /\ usedSignatures[5000] = Filler(10000)
    /\ usedSignatures[5001] = SigGood
    /\ ValidCall(1)

\* the set held 9,999 signatures and an accepted payment made it 10,000:
\* nothing was removed
C30_WitnessNoEviction ==
    /\ Len(usedSignatures) = 10000
    /\ usedSignatures[1] = Filler(1)
    /\ usedSignatures[10000] = SigGood
    /\ ValidCall(1)

\* the first check, in the stated order, that a call for sig fails when its
\* ledger query settles as rpc: replay, fetch (unavailable / not found),
\* on-chain error, freshness, transfer extraction, amount; None when it
\* passes them all
FirstFailure(sig, rpc) ==
    IF InReplaySet(sig) THEN Some(ErrReplay)
    ELSE IF rpc = Some("fault") THEN Some(ErrVerification)
    ELSE IF sig \notin confirmed THEN Some(ErrNotFound)
    ELSE IF TxOf(sig).err THEN Some(ErrTxFailed)
    ELSE IF now - Val(TxOf(sig).blockTime) > 300 THEN Some(ErrTooOld)
    ELSE IF now - Val(TxOf(sig).blockTime) < -60 THEN Some(ErrFromFuture)
    ELSE IF \A d \in ReceiverDeltas(TxOf(sig)) : d <= 0 THEN Some(ErrNoTransfer)
    ELSE IF \A d \in ReceiverDeltas(TxOf(sig)) : Abs(d - 50000) > 1000
         THEN Some(ErrAmountMismatch)
    ELSE None

\* C29 (GateSpec).  Checks short-circuit in a fixed order: the error a
\* verify call returns is that of the first failing check in the order
\* replay, fetch, on-chain execution error, freshness, transfer extraction,
\* amount, and the call is valid when none fails; a transaction that failed
\* on chain and is too old yields the on-chain failure, one that is too old
\* and pays a wrong amount yields too-old.
C29_CheckOrder ==
    [][ \A i \in CallIds :
            (Returns(i) /\ network = "devnet")
            => /\ Val(calls'[i].verification).error
                    = FirstFailure(SignatureOf(calls'[i]), calls'[i].ledger)
               /\ Val(calls'[i].verification).valid
                    <=> FirstFailure(SignatureOf(calls'[i]), calls'[i].ledger) = None
      ]_vars

\* a payment of a wrong amount whose block time is past the freshness window
\* was rejected as too old
C29_Witness ==
    \E i \in CallIds :
        /\ calls[i].authHeader = Some(SigUnderpaid)
        /\ Verified(i)
        /\ calls[i].ledger = Some("ok")
        /\ now - Val(TxOf(SigUnderpaid).blockTime) > 300
        /\ ErrorOf(i) = Some(ErrTooOld)

\* a payment that failed on chain was rejected for that by a server whose
\* clock is past the freshness window
C29_WitnessFailed ==
    \E i \in CallIds :
        /\ calls[i].authHeader = Some(SigFailed)
        /\ Verified(i)
        /\ now - Val(TxOf(SigFailed).blockTime) > 300
        /\ ErrorOf(i) = Some(ErrTxFailed)

\* the budget and the balance of the pay call cover the price
CoversPrice == pay.maxAmount >= Usdc(50000) /\ pay.balance >= 50000

\* what a covered pay call has done so far in the composed system
E2ESoFar ==
    CoversPrice
    => /\ IsSome(pay.initialStatus) => pay.initialStatus = Some(402)
       /\ Len(pay.transfers) <= 1
       /\ \A k \in 1..Len(pay.transfers) :
             pay.transfers[k]
                = [receiver |-> Val(calls[2].response.payment).receiver,
                   amount |-> 50000]
       /\ Len(pay.requests) = 2
          => /\ Len(pay.transfers) = 1
             /\ pay.requests[2].authorization = pay.txSignature
       /\ calls[3].pc = "done"
          => /\ calls[3].authHeader = Some(SigGood)
             /\ calls[3].response.status = 200
             /\ Val(calls[3].response.payload).paidAmount = 50000
       /\ PayDone
          => /\ pay.paidStatus = Some(200)
             /\ Val(pay.result).success
             /\ Val(pay.result).status = 200
             /\ Val(pay.result).txSignature = pay.txSignature

\* C26 (E2ESpec).  End to end: a pay call whose budget and balance cover
\* the price first receives 402, makes exactly one transfer, of 0.05 to the
\* advertised receiver, and its retry with the signature of that transfer
\* is answered 200 with paidAmount 0.05; the call ends with that outcome.
C26_EndToEnd ==
    /\ []E2ESoFar
    /\ (pay.pc = "start" /\ CoversPrice)
          ~> (/\ PayDone
              /\ Val(pay.result).success
              /\ Val(pay.result).status = 200
              /\ Len(pay.transfers) = 1
              /\ calls[3].response.status = 200)

\* pay returned success after a 402, one transfer of the price to the
\* receiver and a retry that the gate granted with paidAmount 0.05
C26_Witness ==
    /\ PayDone
    /\ CoversPrice
    /\ pay.initialStatus = Some(402)
    /\ calls[2].response.status = 402
    /\ pay.transfers = <<[receiver |-> RECEIVER_WALLET, amount |-> PRICE_USDC]>>
    /\ calls[3].response.status = 200
    /\ Val(calls[3].response.payload).paidAmount = 50000
    /\ Val(pay.result).success

\* C33 (TxSpec).  When the ledger reports no block time, verify applies no
\* freshness rejection and goes on to transfer extraction and the amount
\* check: a transaction that succeeded on chain is rejected only for a
\* missing transfer or a wrong amount, and a valid result carries no
\* timestamp.
C33_NoBlockTime ==
    (/\ IsSome(txOut)
     /\ ~Val(txIn).err
     /\ Val(txIn).blockTime = None)
    => /\ Val(txOut).error \notin {Some(ErrTooOld), Some(ErrFromFuture)}
       /\ IF \A d \in ReceiverDeltas(Val(txIn)) : d <= 0
          THEN Val(txOut).error = Some(ErrNoTransfer)
          ELSE IF \A d \in ReceiverDeltas(Val(txIn)) : Abs(d - 50000) > 1000
          THEN Val(txOut).error = Some(ErrAmountMismatch)
          ELSE /\ Val(txOut).valid
               /\ Val(txOut).timestamp = None

\* a payment of the price without a block time was accepted, and the result
\* has no timestamp
C33_Witness ==
    /\ IsSome(txOut)
    /\ txIn = Some(TransferTx(PAYER, RECEIVER_WALLET, PRICE_USDC, FALSE, None))
    /\ Val(txOut).valid
    /\ Val(txOut).timestamp = None

\* an underpayment without a block time was rejected by the amount check
C33_WitnessAmount ==
    /\ IsSome(txOut)
    /\ txIn = Some(TransferTx(PAYER, RECEIVER_WALLET, 30000, FALSE, None))
    /\ Val(txOut).error = Some(ErrAmountMismatch)

\* the pre-balance entries of tx that can be the sender of a transfer of
\* delta: of the devnet mint, not owned by the receiver, and lower by
\* exactly delta after the transaction (0 when the account has no entry after)
SenderCandidates(tx, delta) ==
    {i \in 1..Len(tx.pre) :
        /\ tx.pre[i].mint = USDC_MINTS["devnet"]
        /\ tx.pre[i].owner # Some(RECEIVER_WALLET)
        /\ \/ \E j \in 1..Len(tx.post) :
                 /\ tx.post[j].accountIndex = tx.pre[i].accountIndex
                 /\ tx.pre[i].amount - tx.post[j].amount = delta
           \/ /\ \A j \in 1..Len(tx.post) :
                    tx.post[j].accountIndex # tx.pre[i].accountIndex
              /\ tx.pre[i].amount = delta}

\* C34 (TxSpec).  Sender attribution is best-effort: a found transfer names
\* as sender the owner of the first pre-balance account of the expected
\* mint, not owned by the receiver, whose balance decreased by exactly the
\* receiver's delta; when there is none the transfer is still found, with
\* the sender absent, and verify returns the sender the extractor found.
C34_SenderBestEffort ==
    (IsSome(xferOut) /\ Val(xferOut).found)
    => LET tx == Val(txIn)
           candidates == SenderCandidates(tx, Val(Val(xferOut).amount))
       IN  /\ IF candidates = {}
              THEN Val(xferOut).sender = None
              ELSE Val(xferOut).sender
                     = tx.pre[CHOOSE i \in candidates :
                                 \A k \in candidates : i <= k].owner
           /\ Val(txOut).valid => Val(txOut).sender = Val(xferOut).sender

\* the receiver was credited with the price, no account lost that amount,
\* and verify returned valid:true without a sender
C34_Witness ==
    /\ IsSome(xferOut)
    /\ Val(xferOut).found
    /\ Val(xferOut).sender = None
    /\ SenderCandidates(Val(txIn), Val(Val(xferOut).amount)) = {}
    /\ Val(txOut).valid
    /\ Val(txOut).sender = None

\* the instruction loop returned for the transaction (line 242)
ReturnedInLoop(tx) ==
    InstructionPass(tx, USDC_MINTS["devnet"], RECEIVER_WALLET, 1).found

\* C37 (TxSpec).  The extractor's result is determined by the token-balance
\* snapshots alone: findUSDCTransfer returns the found flag, sender,
\* receiver and amount that the balance-delta fallback gives on the same
\* pre and post balances, whatever parsed instructions the transaction has
\* and whether the result was returned inside the instruction loop or after
\* it.
C37_ExtractorIsFallback ==
    IsSome(xferOut)
    => LET fallback == FallbackPass(Val(txIn), USDC_MINTS["devnet"], RECEIVER_WALLET)
       IN  /\ Val(xferOut).found = fallback.found
           /\ Val(xferOut).sender = fallback.sender
           /\ Val(xferOut).receiver = fallback.receiver
           /\ Val(xferOut).amount = fallback.amount
           /\ ReturnedInLoop(Val(txIn))
              => Val(xferOut)
                   = InstructionPass(Val(txIn), USDC_MINTS["devnet"],
                                     RECEIVER_WALLET, 1)

\* the instruction loop returned at a transferChecked of the mint that
\* follows an unparsed instruction, with a sender attributed among two
\* accounts of the mint
C37_Witness ==
    /\ IsSome(xferOut)
    /\ Len(Val(txIn).instructions) = 2
    /\ ReturnedInLoop(Val(txIn))
    /\ Len(Val(txIn).pre) = 2
    /\ Val(xferOut).found
    /\ Val(xferOut).amount = Some(PRICE_USDC)
    /\ Val(xferOut).sender = Some(PAYER)

\* a transaction without any instruction credits the receiver, and the
\* extractor reports the transfer found after the loop
C37_WitnessNoInstruction ==
    /\ IsSome(xferOut)
    /\ Val(txIn).instructions = <<>>
    /\ ~ReturnedInLoop(Val(txIn))
    /\ Val(xferOut).found
    /\ Val(xferOut).amount = Some(PRICE_USDC)

\* a transfer instruction of another mint precedes nothing that credits the
\* receiver in that mint: the credit in the expected mint is still reported
C37_WitnessOtherMint ==
    /\ IsSome(xferOut)
    /\ Val(txIn).instructions = <<CheckedIx(OTHER_MINT)>>
    /\ Val(xferOut).found

\* the transfers pay submitted are addressed to the receiver the parsed
\* requirement names, and the requirement passed the budget guard
TransfersFollowRequirement ==
    \A k \in 1..Len(pay.transfers) :
        /\ IsSome(pay.requirement)
        /\ IsNumber(Val(pay.requirement).amount)
        /\ Val(Val(pay.requirement).amount) <= pay.maxAmount
        /\ Some(pay.transfers[k].receiver) = Val(pay.requirement).receiver

\* C36 (PaySpec).  Spending invariant: every submitted transfer has exactly
\* the amount of the parsed requirement, which does not exceed maxAmount,
\* and goes to the receiver the requirement names; for no requirement
\* descriptor does pay move more than maxAmount.
C36_SpendingInvariant ==
    /\ TransfersFollowRequirement
    /\ \A k \in 1..Len(pay.transfers) :
          /\ Usdc(pay.transfers[k].amount) = Val(Val(pay.requirement).amount)
          /\ Usdc(pay.transfers[k].amount) <= pay.maxAmount

\* what does hold of the amounts: the transfer's amount is the requirement's
\* amount rounded to the nearest smallest unit of the token, so it exceeds
\* neither the requirement's amount nor maxAmount by more than half a
\* smallest unit
SpendingUpToRounding ==
    /\ TransfersFollowRequirement
    /\ \A k \in 1..Len(pay.transfers) :
          LET moved == Usdc(pay.transfers[k].amount)
              asked == Val(Val(pay.requirement).amount)
          IN  /\ 2 * (moved - asked) <= DecimalGrid
              /\ 2 * (asked - moved) <= DecimalGrid
              /\ 2 * (moved - pay.maxAmount) <= DecimalGrid

\* a requirement of just under the price, with maxAmount the same, was paid
\* with a transfer of the full price
OverspentByRounding ==
    /\ PayDone
    /\ pay.maxAmount = Usdc(PRICE_USDC) - OffGrid
    /\ IsSome(pay.requirement)
    /\ Val(pay.requirement).amount = Some(Usdc(PRICE_USDC) - OffGrid)
    /\ pay.transfers = <<[receiver |-> RECEIVER_WALLET, amount |-> PRICE_USDC]>>
    /\ Val(pay.result).success

\* a requirement of 124 smallest units and a half was paid with a transfer
\* of 124: the double product lies below the half
HalfwayRoundedDown ==
    /\ PayDone
    /\ IsSome(pay.requirement)
    /\ Val(pay.requirement).amount = Some(Usdc(124) + DecimalGrid \div 2)
    /\ 2 * Val(Val(pay.requirement).amount) = Usdc(124) + Usdc(125)
    /\ pay.transfers = <<[receiver |-> RECEIVER_WALLET, amount |-> 124]>>
    /\ Val(pay.result).success

\* a requirement with a negative amount passed the budget guard and the
\* balance check, and its transfer was not confirmed
NegativeRequirementTried ==
    /\ PayDone
    /\ IsSome(pay.requirement)
    /\ Val(pay.requirement).amount = Some(- Usdc(PRICE_USDC))
    /\ Len(pay.transfers) = 1
    /\ pay.txSignature = None

\* a requirement without an amount led to a transfer of nothing
ZeroRequirementPaid ==
    /\ PayDone
    /\ IsSome(pay.requirement)
    /\ Val(pay.requirement).amount = Some(0)
    /\ Len(pay.transfers) = 1
    /\ pay.transfers[1].amount = 0

\* C35 (PaySpec).  Within one pay call the network steps are strictly
\* ordered: a step submits a transfer only when an initial response with
\* status 402 was received before and its requirement passed the budget
\* guard, and only once; a step sends a request after the initial one only
\* when a transfer was submitted before, and with that step the transfer is
\* confirmed and its signature obtained; the initial request carries no
\* signature of a transfer.
C35_StepsOrdered ==
    [][/\ pay'.transfers # pay.transfers
          => /\ pay.transfers = <<>>
             /\ Len(pay.requests) = 1
             /\ pay.initialStatus = Some(402)
             /\ IsSome(pay.requirement)
             /\ IsNumber(Val(pay.requirement).amount)
             /\ Val(Val(pay.requirement).amount) <= pay.maxAmount
       /\ pay'.requests # pay.requests
          => \/ /\ pay.requests = <<>>
                /\ pay.initialStatus = None
                /\ pay.transfers = <<>>
                /\ pay'.txSignature = None
                /\ pay'.requests[1].authorization # Some(CLIENT_SIGNATURE)
             \/ /\ Len(pay.requests) = 1
                /\ Len(pay'.requests) = 2
                /\ Len(pay.transfers) = 1
                /\ pay.txSignature = None
                /\ pay'.txSignature = Some(CLIENT_SIGNATURE)]_vars

\* the request carrying the transfer's signature was sent second, after a
\* 402 and one transfer
C35_Witness ==
    /\ Len(pay.requests) = 2
    /\ pay.requests[2].authorization = Some(CLIENT_SIGNATURE)
    /\ pay.requests[1].authorization = None
    /\ pay.initialStatus = Some(402)
    /\ Len(pay.transfers) = 1
    /\ pay.pc = "paid"

\* call i carries signature sig in one of its forms
PresentsFormOf(i, sig) ==
    /\ calls[i].pc # "idle"
    /\ \E form \in ProofForms(sig) : calls[i].authHeader = Some(form)

\* C38 (FormSpec).  Proof normalisation preserves replay protection: in
\* whichever form a request presents a signature (raw, behind Bearer in any
\* letter case, with white space around it), the engine is handed the same
\* string; and once a request presenting it in one form was granted, a later
\* request presenting it in any form, through GET or POST, is rejected as a
\* replay without a ledger query.
C38_FormsShareReplayGuard ==
    \A sig \in LedgerSigs :
        /\ \A i \in CallIds :
              PresentsFormOf(i, sig) => SignatureOf(calls[i]) = sig
        /\ \A i, j \in CallIds :
              (/\ i < j
               /\ PresentsFormOf(i, sig)
               /\ calls[i].response.status = 200
               /\ PresentsFormOf(j, sig))
              => /\ calls[j].ledger = None
                 /\ Verified(j)
                 /\ ~Val(calls[j].verification).valid
                 /\ ErrorOf(j) = Some(ErrReplay)
                 /\ Done(j)
                    => /\ calls[j].response.status = 402
                       /\ calls[j].response.details = Some(ErrReplay)

\* a signature was granted to a GET request that sent it raw with white
\* space around it, and a POST request that sent it behind bEaReR and a
\* no-break space, followed by a form feed, was then rejected as a replay
C38_Witness ==
    /\ calls[1].method = "GET"
    /\ calls[1].authHeader = Some(<<" ">> \o SigGood \o <<"\t", " ">>)
    /\ calls[1].response.status = 200
    /\ calls[2].method = "POST"
    /\ calls[2].authHeader
         = Some(<<"b", "E", "a", "R", "e", "R", "U+00A0">> \o SigGood \o <<"\f">>)
    /\ calls[2].response.details = Some(ErrReplay)

\* C31 (GuardSpec).  Insertion and eviction form one uninterrupted step:
\* whatever the interleaving of the verify calls, at every state (so at
\* every replay check and every isSignatureUsed call) the replay set holds
\* at most 10,000 entries and is not partially evicted: of the 5,000 oldest
\* entries the set started with, either all are present or none is, and a
\* step that shrinks the set is a whole clean-up (or a clear).
C31_InsertEvictAtomic ==
    /\ [](/\ Len(usedSignatures) <= 10000
          /\ \A k \in {3, 4999, 5000} :
                isSignatureUsed(Filler(k)) <=> isSignatureUsed(Filler(3)))
    /\ [][Len(usedSignatures') < Len(usedSignatures)
            => \/ usedSignatures' = <<>>
               \/ /\ Len(usedSignatures) = 10000
                  /\ Len(usedSignatures') = 5001
                  /\ \A k \in 1..5000 : usedSignatures'[k] = usedSignatures[k + 5000]
                  /\ \E i \in CallIds :
                        /\ Returns(i)
                        /\ usedSignatures'[5001] = Val(calls'[i].authHeader)
       ]_vars

\* two calls overlapped; the first to return made the set exceed 10,000
\* entries and cleaned it up, and the other is still waiting for the ledger
C31_Witness ==
    /\ calls[2].overlaps = {1}
    /\ \E i, j \in {1, 2} :
          /\ ValidCall(i)
          /\ calls[j].pc = "awaitLedger"
    /\ Len(usedSignatures) = 5001
    /\ usedSignatures[1] = Filler(5001)
    /\ ~isSignatureUsed(Filler(5000))

\* call i returns from the ledger query for a payment that was accepted
\* before, was evicted from the replay set (the set was not cleared: it
\* holds the entries a clean-up keeps), and was confirmed more than 300 s ago
ReturnsForAgedOut(i) ==
    /\ calls[i].pc = "awaitLedger"
    /\ Returns(i)
    /\ Val(calls[i].authHeader) \in {SigGood, SigUntimed}
    /\ ~isSignatureUsed(Val(calls[i].authHeader))
    /\ isSignatureUsed(Filler(5001))
    /\ now - BlockTime0 > 300

\* C32 as stated (GuardSpec).  Eviction does not reopen old payments: a
\* previously accepted signature presented again after its eviction is never
\* answered valid:true once its transaction was confirmed more than 300 s ago.
C32_EvictionNeverReopens ==
    [][ \A i \in CallIds :
            ReturnsForAgedOut(i) => ~Val(calls'[i].verification).valid ]_vars

\* C32 (GuardSpec).  Eviction does not reopen old payments whose block time
\* the ledger reports: a previously accepted signature presented again after
\* its eviction, once its transaction is older than 300 s, is rejected as
\* too old and stays out of the replay set.  A payment for which the ledger
\* reports no block time is not covered: it is answered valid:true again.
C32_EvictionReopensOnlyUntimed ==
    [][ \A i \in CallIds :
            ReturnsForAgedOut(i)
            => LET sig == Val(calls[i].authHeader)
                   res == Val(calls'[i].verification)
               IN  IF IsSome(TxOf(sig).blockTime)
                   THEN /\ ~res.valid
                        /\ res.error = Some(ErrTooOld)
                        /\ usedSignatures' = usedSignatures
                   ELSE /\ res.valid
                        /\ isSignatureUsed(sig)' ]_vars

\* the clean-up after the 10,001st acceptance dropped the oldest payment,
\* which was presented again one second past the window and refused as too
\* old
C32_Witness ==
    /\ now = BlockTime0 + 301
    /\ Len(usedSignatures) = 5001
    /\ usedSignatures[1] = Filler(5001)
    /\ \E i \in CallIds :
          /\ calls[i].authHeader = Some(SigGood)
          /\ Verified(i)
          /\ ErrorOf(i) = Some(ErrTooOld)

\* ... and the evicted payment without a block time was accepted again
UntimedReopened ==
    /\ now = BlockTime0 + 301
    /\ Len(usedSignatures) = 5002
    /\ usedSignatures[1] = Filler(5001)
    /\ \E i \in CallIds :
          /\ calls[i].authHeader = Some(SigUntimed)
          /\ ValidCall(i)

\* the signatures whose membership is followed: the payments of the ledger
\* that are presented, and earlier payments on either side of a clean-up
Watched ==
    GuardSignatures \cup {Filler(5000), Filler(5001)}

\* this step is the return of a verify call for sig with valid:true
AcceptedNow(sig) ==
    \E i \in CallIds :
        /\ Returns(i)
        /\ Val(calls'[i].verification).valid
        /\ Val(calls[i].authHeader) = sig

\* this step is the return of an accepted call whose insertion made the set
\* exceed 10,000 entries, sig being among the 5,000 oldest
EvictedNow(sig) ==
    /\ Len(usedSignatures) = 10000
    /\ \E k \in 1..5000 : usedSignatures[k] = sig
    /\ \E other \in GuardSignatures :
          AcceptedNow(other) /\ ~(\E k \in 1..10000 : usedSignatures[k] = other)

\* C39 (GuardSpec).  Replay Guard membership: with every step,
\* isSignatureUsed(s) is true afterwards exactly when the step is a verify
\* call for s returning valid:true, or it was true before and the step
\* neither evicts s nor is clearUsedSignatures; after clearUsedSignatures it
\* is false for every s; and a payment of the ledger that is still fresh and
\* has passed the replay check (after a clear, say) is accepted and is a
\* member again.
C39_GuardMembership ==
    [][/\ \A sig \in Watched :
             isSignatureUsed(sig)'
             <=> \/ AcceptedNow(sig)
                 \/ /\ isSignatureUsed(sig)
                    /\ ~EvictedNow(sig)
                    /\ ~clearUsedSignatures
       /\ clearUsedSignatures
             => /\ usedSignatures' = <<>>
                /\ \A sig \in Watched : ~isSignatureUsed(sig)'
       /\ \A i \in CallIds :
             (/\ calls[i].pc = "awaitLedger"
              /\ Returns(i)
              /\ now - BlockTime0 <= 300)
             => /\ Val(calls'[i].verification).valid
                /\ isSignatureUsed(Val(calls[i].authHeader))'
      ]_vars

\* the set was cleared, and the oldest payment, presented again inside its
\* window, was accepted again and is the set's only member
C39_Witness ==
    /\ now = BlockTime0 + 300
    /\ usedSignatures = <<SigGood>>
    /\ \E i \in CallIds :
          /\ calls[i].authHeader = Some(SigGood)
          /\ ValidCall(i)
    /\ isSignatureUsed(SigGood)
    /\ ~isSignatureUsed(Filler(9999))

\* the status of the last response pay received, 0 when it received none
FurthestStatus ==
    IF IsSome(pay.paidStatus) THEN Val(pay.paidStatus)
    ELSE IF IsSome(pay.initialStatus) THEN Val(pay.initialStatus)
    ELSE 0

\* C22 (PaySpec).  Every failing pay call returns success:false with the
\* furthest HTTP status reached: 0 only when no response was received, and
\* 402 when the failure came after the initial 402 response.
C22_FurthestStatus ==
    (PayDone /\ ~Val(pay.result).success)
    => Val(pay.result).status = FurthestStatus

\* the initial response was received and was not 402
InitialNot402 == IsSome(pay.initialStatus) /\ Val(pay.initialStatus) # 402

\* C23 (PaySpec).  When the initial response is not 402, pay
\* returns its status as received, success iff the status is in the
\* successful class, and has made no transfer and sent no second request.
C23_PassThroughVerbatim ==
    InitialNot402
    => /\ pay.pc \in {"initialBody", "done"}
       /\ PayDone
          => /\ Val(pay.result).status = Val(pay.initialStatus)
             /\ Val(pay.result).success
                  <=> (Val(pay.initialStatus) >= 200
                       /\ Val(pay.initialStatus) <= 299)
       /\ pay.signerCalls = 0
       /\ pay.transfers = <<>>
       /\ Len(pay.requests) = 1

\* C24 (PaySpec).  Once the transfer is executed, the retry has been sent and
\* the Authorization value it carries is the signature of that transfer,
\* whatever headers the caller passed.
C24_RetryCarriesSignature ==
    IsSome(pay.txSignature)
    => /\ Len(pay.requests) = 2
       /\ pay.requests[2].authorization = pay.txSignature

\* the requirement names a receiver and an amount that the balance does not cover
BalanceTooLow ==
    /\ IsSome(pay.requirement)
    /\ IsSome(Val(pay.requirement).receiver)
    /\ IsNumber(Val(pay.requirement).amount)
    /\ pay.balance < AmountRaw(Val(Val(pay.requirement).amount))

\* C25 (PaySpec).  When the sender's balance is below the required amount,
\* no transfer is ever submitted and no paid retry is sent; once the balance
\* has been read, pay has failed with the insufficient-balance error.
C25_InsufficientBalance ==
    BalanceTooLow
    => /\ pay.pc \notin {"transfer", "paid", "paidBody"}
       /\ pay.transfers = <<>>
       /\ pay.txSignature = None
       /\ Len(pay.requests) = 1
       /\ (/\ PayDone
           /\ pay.signerCalls = 1
           /\ Val(pay.result).error # "could not read the token account")
          => /\ ~Val(pay.result).success
             /\ Val(pay.result).error = "Insufficient USDC balance"

\* with an empty account and a budget that covers the price, pay has failed
\* for its balance without a transfer
C25_Witness ==
    /\ PayDone
    /\ pay.balance = 0
    /\ pay.maxAmount = Usdc(50000)
    /\ BalanceTooLow
    /\ Val(pay.result).error = ErrInsufficient
    /\ pay.transfers = <<>>

\* C5 (PaySpec).  Budget guard: once the requirement is parsed with an amount
\* above maxAmount, pay has returned success:false with the
\* amount-exceeds-maximum error, the transfer routine was never invoked, no
\* transfer was submitted, and the initial request is the only request sent.
C5_BudgetGuard ==
    (/\ IsSome(pay.requirement)
     /\ IsNumber(Val(pay.requirement).amount)
     /\ Val(Val(pay.requirement).amount) > pay.maxAmount)
    => /\ PayDone
       /\ ~Val(pay.result).success
       /\ Val(pay.result).error = ErrExceeds
       /\ pay.signerCalls = 0
       /\ pay.transfers = <<>>
       /\ Len(pay.requests) = 1
       /\ PaidRequests = {}

\* pay with maxAmount 0.03 against a requirement of 0.05 has failed locally
C5_Witness ==
    /\ PayDone
    /\ pay.maxAmount = Usdc(30000)
    /\ IsSome(pay.requirement)
    /\ Val(pay.requirement).amount = Some(Usdc(50000))
    /\ Val(pay.result).error = ErrExceeds

\* C6 (PaySpec).  One pay call submits the transfer at most once and invokes
\* the transfer routine at most once, whatever the transfer and the paid
\* retry do.
C6_AtMostOneTransfer ==
    /\ Len(pay.transfers) <= 1
    /\ pay.signerCalls <= 1

\* the paid retry was answered 402 and pay returned with one transfer made
C6_Witness ==
    /\ PayDone
    /\ pay.paidStatus = Some(402)
    /\ Len(pay.transfers) = 1

\* C7 (PaySpec).  Whenever pay has executed a transfer and obtained its
\* signature, the result it returns carries that signature.
C7_ResultCarriesSignature ==
    (PayDone /\ IsSome(pay.txSignature))
    => Val(pay.result).txSignature = pay.txSignature

====
